---- MODULE Spec2Model ----
(***************************************************************************)
(* Model of the webhook reconciliation engine of the social-integration    *)
(* feature: SocialIntegrationController.handleWebhook and                  *)
(* LinkedInWebhookService (dedup set, lead matcher, lead state machine,    *)
(* phone reveal and auto-call).                                            *)
(*                                                                         *)
(* Strings are sequences of tokens (a scheme, "www.", the platform domain, *)
(* "/in/", single characters of a slug, ...), so that prefix stripping,    *)
(* SQL REPLACE, LIKE '%..%' and the slug regular expression are computed   *)
(* on the text and not assumed.  The empty sequence stands for the falsy   *)
(* values null, undefined and ''.  Time is counted in units of 24 hours.   *)
(***************************************************************************)
EXTENDS Integers, Sequences, FiniteSets, TLC

\* ------------------------------------------------------------------------
\* Strings
\* ------------------------------------------------------------------------
NULL == << >>

Truthy(x) == x # NULL

\* a || b of JavaScript on strings
Or2(a, b) == IF Truthy(a) THEN a ELSE b

\* tokens that contain "/" or "?", which the class [^/?] of the slug pattern excludes
Terminators == {"https://", "http://", "/in/", "/", "?"}

SubSeqFrom(s, i) == IF i > Len(s) THEN << >> ELSE SubSeq(s, i, Len(s))

\* String.prototype.includes / SQL LIKE '%needle%' on a non-null haystack
Contains(hay, needle) ==
    \E i \in 0..(Len(hay) - Len(needle)) :
        \A k \in 1..Len(needle) : hay[i + k] = needle[k]

\* s.replace(/^https?:\/\//, '')
StripScheme(s) ==
    IF Len(s) > 0 /\ s[1] \in {"https://", "http://"} THEN Tail(s) ELSE s

\* s.replace(/^www\./, '')
StripWww(s) ==
    IF Len(s) > 0 /\ s[1] = "www." THEN Tail(s) ELSE s

\* url.replace(/^https?:\/\//, '').replace(/^www\./, '')
UrlForMatching(s) == StripWww(StripScheme(s))

\* REPLACE(REPLACE(REPLACE(col, 'https://', ''), 'http://', ''), 'www.', ''):
\* every occurrence is removed, wherever it stands
SqlStripUrl(s) == SelectSeq(s, LAMBDA t : t \notin {"https://", "http://", "www."})

\* the positions where /linkedin\.com\/in\/([^/?]+)/ can match
SlugMatchPositions(s) ==
    { i \in 1..Len(s) :
        /\ i + 2 <= Len(s)
        /\ s[i] = "linkedin.com"
        /\ s[i + 1] = "/in/"
        /\ s[i + 2] \notin Terminators }

Min(S) == CHOOSE x \in S : \A y \in S : x <= y

\* a slug pattern that stops at "?" only: ([^?]+)
RECURSIVE SlugUpToQuery(_)
SlugUpToQuery(s) ==
    IF s = << >> \/ Head(s) = "?" THEN << >>
    ELSE <<Head(s)>> \o SlugUpToQuery(Tail(s))

\* the longest prefix of s made of tokens outside Terminators: ([^/?]+)
RECURSIVE SlugRun(_)
SlugRun(s) ==
    IF s = << >> \/ Head(s) \in Terminators THEN << >>
    ELSE <<Head(s)>> \o SlugRun(Tail(s))

\* s.split('?')[0]
RECURSIVE BeforeQuery(_)
BeforeQuery(s) ==
    IF s = << >> \/ Head(s) = "?" THEN << >>
    ELSE <<Head(s)>> \o BeforeQuery(Tail(s))

\* LinkedInWebhookService.normalizeLinkedInUrl
normalizeLinkedInUrl(url) ==
    IF ~Truthy(url) THEN NULL
    ELSE LET normalized == UrlForMatching(url)
             pos == SlugMatchPositions(normalized)
         IN IF pos # {}
            THEN <<"https://", "www.", "linkedin.com", "/in/">>
                    \o SlugRun(SubSeqFrom(normalized, Min(pos) + 2))
            ELSE IF Contains(normalized, <<"linkedin.com", "/in/">>)
                 THEN <<"https://", "www.">> \o BeforeQuery(normalized)
                 ELSE url

\* ------------------------------------------------------------------------
\* Bounds of the model
\* ------------------------------------------------------------------------
\* webhook deliveries explored in one behaviour
MaxEvents == 2

\* deliveries while the processed-event set fills up and overflows
MaxDedupEvents == 1003

\* account status deliveries explored in one behaviour
MaxStatusEvents == 1

\* deliveries looked up against one store
MaxLookupEvents == 1

\* direct phone reveals and other phone writes explored in one behaviour
MaxRevealEvents == 3

\* direct calls of triggerAutoCall explored in one behaviour
MaxCallEvents == 1

\* acceptance events delivered on one day
MaxSameDayEvents == 2

\* batch requests in one behaviour, and the longest list of profiles in one request
MaxBatches == 1
MaxProfiles == 3

\* requests validated in one behaviour
MaxValidations == 1

\* handleConnectionAccepted calls the event loop holds at once
MaxRequests == 2

\* processNewEmployees calls followed
MaxRuns == 3

\* startNotificationListener calls followed; each creates one pg client
MaxListens == 2

\* timers of one kind pending at once
MaxTimers == 1

\* users with LinkedIn connected that the users query returns
MaxUsers == 2

\* ------------------------------------------------------------------------
\* Program constants (time in units of 24 hours)
\* ------------------------------------------------------------------------
\* 24 * 60 * 60 * 1000 ms
TWENTY_FOUR_HOURS == 1

\* INTERVAL '7 days'
SEVEN_DAYS == 7

\* processedEvents.size > 1000
MaxProcessedEvents == 1000

\* cleanPhone.length < 5
MinPhoneLength == 5

\* the clock value of the initial state
StartTime == 3

\* ------------------------------------------------------------------------
\* Data of the model: profiles, phones, stage keys, tables the engine reads
\* ------------------------------------------------------------------------
Canon(slug) == <<"https://", "www.", "linkedin.com", "/in/">> \o slug

SlugJ == <<"j", "d">>
SlugA == <<"a", "n">>
SlugK == <<"k", "y">>
SlugZ == <<"z">>

Phone1 == <<"+", "1", "5", "5", "5", "0", "1">>
Phone2 == <<"(", "5", "5", "5", ")", " ", "0", "1", "-", "2", "3">>

STAGE_REQUEST_ACCEPTED == <<"request_", "accepted">>
STAGE_REQUEST_SENT == <<"request_", "sent">>
STAGE_CALL_TRIGGERED == <<"call_", "triggered">>

Digits == {"0", "1", "2", "3", "4", "5", "6", "7", "8", "9"}

\* lead_stages: organization 1 defines its own keys, organization 2 defines none
lead_stages ==
    { [organization_id |-> 1, key |-> <<"li_", "sent">>,
       name |-> <<"Request ", "Sent">>, display_order |-> 1],
      [organization_id |-> 1, key |-> <<"LI_", "Accepted">>,
       name |-> <<"Request ", "Accepted">>, display_order |-> 2],
      [organization_id |-> 1, key |-> <<"auto_", "call_", "triggered">>,
       name |-> <<"call ", "triggered">>, display_order |-> 3] }

\* employees_cache: read, never written, by the engine
employees_cache ==
    { [employee_linkedin_url |-> Canon(SlugJ), employee_phone |-> Phone2,
       employee_name |-> <<"J D">>],
      [employee_linkedin_url |-> <<"http://", "linkedin.com", "/in/">> \o SlugK,
       employee_phone |-> Phone1, employee_name |-> <<"K Y">>] }

\* organization_settings rows with key = 'default_agent_id'
organization_settings == { [organization_id |-> 1, value |-> "7"] }

\* the leads and profile links that exist before the first delivery
InitialLeads ==
    << [name |-> <<"J D">>, status |-> "request_sent", stage |-> <<"li_", "sent">>,
        organization_id |-> 1, phone |-> NULL, is_deleted |-> FALSE, updated_at |-> 1],
       [name |-> <<"A N">>, status |-> "request_sent", stage |-> STAGE_REQUEST_SENT,
        organization_id |-> 2, phone |-> Phone2, is_deleted |-> FALSE, updated_at |-> 2] >>

InitialLeadSocial ==
    << <<"https://", "linkedin.com", "/in/">> \o SlugJ, Canon(SlugA) >>

InitialIntegrations ==
    [a \in {"acc1", "acc2"} |->
        [is_active |-> TRUE, status |-> "connected", status_message |-> <<"O", "K">>,
         last_status_update |-> 0, organization_id |-> IF a = "acc1" THEN 1 ELSE 2]]

\* ------------------------------------------------------------------------
\* State
\* ------------------------------------------------------------------------
VARIABLES
    leads,                  \* table leads, indexed by id
    lead_social,            \* table lead_social: lead id -> linkedin, NULL = no row
    call_logs,              \* voice_agent.call_logs_voiceagent rows tagged
                            \* '%LinkedIn connection request%': [target, started_at]
    linkedin_integrations,  \* table linkedin_integrations, by unipile_account_id
    processedEvents,        \* this.processedEvents, in insertion order
    now,                    \* Date.now() / NOW()
    env,                    \* process.env
    dispatched,             \* per lead: call requests the call service accepted
    triggered,              \* per lead: UPDATEs to the call-triggered stage applied
    nEvents,                \* deliveries so far
    last,                   \* what the last delivery did
    response,               \* the HTTP response of the last handleWebhook
    probe,                  \* argument and result of the last direct call of
                            \* normalizeLinkedInUrl
    inflight,               \* handleConnectionAccepted calls suspended at an await
    direct,                 \* the last call of a function of the REST API: its name,
                            \* arguments and result
    processor               \* the EmployeeAutoProcessor object, its timers, its
                            \* notification clients and its calls in progress

vars == <<leads, lead_social, call_logs, linkedin_integrations, processedEvents,
          now, env, dispatched, triggered, nEvents, last, response, probe, inflight, direct,
          processor>>

\* LOWER() / toLowerCase() on the tokens the model uses
LowerTok(tok) ==
    CASE tok = "LI_" -> "li_"
      [] tok = "Accepted" -> "accepted"
      [] tok = "Request " -> "request "
      [] tok = "Sent" -> "sent"
      [] OTHER -> tok

Lower(s) == [k \in 1..Len(s) |-> LowerTok(s[k])]

SeqToSet(s) == { s[k] : k \in 1..Len(s) }

Cap2(n) == IF n >= 2 THEN 2 ELSE n + 1

\* process.env.LINKEDIN_AUTO_CALL_ENABLED !== 'false'
autoCallEnabled(e) == e.LINKEDIN_AUTO_CALL_ENABLED # "false"

\* a batch switch that is never read
NeverBatch(e) == FALSE

\* process.env.LINKEDIN_BATCH_CALL_ENABLED === 'true'
batchModeEnabled(e) == e.LINKEDIN_BATCH_CALL_ENABLED = "true"

\* the pool.query named point throws in this delivery
Fail(i, point) == i.fail = point

\* ------------------------------------------------------------------------
\* Queries
\* ------------------------------------------------------------------------
\* WHERE (ls.linkedin = $1 OR REPLACE(...) = $2 OR ls.linkedin LIKE $3)
\*   AND l.is_deleted = FALSE
LeadMatches(s, id, normalizedUrl, urlForMatching) ==
    LET linkedin == s.lead_social[id]
    IN /\ Truthy(linkedin)
       /\ \/ linkedin = normalizedUrl
          \/ SqlStripUrl(linkedin) = urlForMatching
          \/ Contains(linkedin, urlForMatching)
       /\ ~s.leads[id].is_deleted

\* ORDER BY l.updated_at DESC LIMIT 1: the rows that can come first
leadQuery(s, normalizedUrl, urlForMatching) ==
    LET hits == { id \in 1..Len(s.leads) :
                    LeadMatches(s, id, normalizedUrl, urlForMatching) }
    IN { id \in hits :
           \A o \in hits : s.leads[id].updated_at >= s.leads[o].updated_at }

\* LIMIT 1 among equally ranked rows: the database picks
PickRow(rows, pick) ==
    IF pick \in rows THEN pick ELSE CHOOSE r \in rows : TRUE

\* WHERE employee_linkedin_url = $1 OR REPLACE(...) = $2
employeeCacheCheck(normalizedUrl, urlForMatching) ==
    { row \in employees_cache :
        \/ row.employee_linkedin_url = normalizedUrl
        \/ SqlStripUrl(row.employee_linkedin_url) = urlForMatching }

\* SELECT DISTINCT organization_id FROM linkedin_integrations WHERE is_active ...
orgQuery(s) ==
    { s.linkedin_integrations[a].organization_id :
        a \in { b \in DOMAIN s.linkedin_integrations :
                  /\ s.linkedin_integrations[b].is_active
                  /\ s.linkedin_integrations[b].organization_id # 0 } }

\* cl.started_at > NOW() - INTERVAL '7 days'
IsRecentCall(log, t) == log.started_at > t - SEVEN_DAYS

\* CHECK 2: tagged calls whose target is the lead, within 7 days
existingCallQuery(s, id) ==
    { log \in s.call_logs : log.target = id /\ IsRecentCall(log, s.now) }

\* CHECK 3: tagged calls within 7 days whose target is a lead with this phone
recentCallCheck(s, phoneNumber) ==
    { log \in s.call_logs :
        /\ log.target \in 1..Len(s.leads)
        /\ s.leads[log.target].phone = phoneNumber
        /\ IsRecentCall(log, s.now) }

\* SELECT key FROM lead_stages WHERE organization_id = $1 AND LOWER(col) LIKE
\* '%fragment%' ORDER BY display_order ASC LIMIT 1, with the fallback key.
\* Each query's other LIKE alternatives contain this fragment, so they add no row.
StageKeyByFragment(org, byName, fragment, fallback) ==
    LET rows == { r \in lead_stages :
                    /\ r.organization_id = org
                    /\ Contains(Lower(IF byName THEN r.name ELSE r.key), fragment) }
    IN IF rows = {} THEN fallback
       ELSE (CHOOSE r \in rows :
                \A o \in rows : r.display_order <= o.display_order).key

\* ------------------------------------------------------------------------
\* Results
\* ------------------------------------------------------------------------
\* a handler returns a result object (reason "undefined": a bare return)
Return(s, success, skipped, reason) ==
    [s EXCEPT !.out = [outcome |-> "returned", success |-> success,
                       skipped |-> skipped, reason |-> reason]]

\* a handler rethrows the error of the query that failed from its catch block
Throw(s, point) ==
    [s EXCEPT !.out = [outcome |-> "threw", success |-> FALSE,
                       skipped |-> FALSE, reason |-> "query failed"]]

\* UPDATE leads SET ... WHERE id = $n
UpdateLead(s, id, status, stage) ==
    [s EXCEPT !.leads[id].status = status,
              !.leads[id].stage = stage,
              !.leads[id].updated_at = s.now]

\* ------------------------------------------------------------------------
\* LinkedInWebhookService.revealPhoneNumber
\* ------------------------------------------------------------------------
\* WHERE employee_linkedin_url = $1 OR REPLACE(url...) = REPLACE($1...)
revealCacheQuery(linkedinUrl) ==
    { row \in employees_cache :
        \/ row.employee_linkedin_url = linkedinUrl
        \/ SqlStripUrl(row.employee_linkedin_url) = SqlStripUrl(linkedinUrl) }

\* an UPDATE of the phone without the "still empty" condition
OverwriteLeadPhone(s, id, phone) ==
    [s EXCEPT !.leads[id].phone = phone,
              !.leads[id].updated_at = s.now,
              !.phoneWrites = @ + 1]

\* UPDATE leads SET phone = $1 WHERE id = $2 AND (phone IS NULL OR phone = '')
UpdateLeadPhone(s, id, phone) ==
    IF s.leads[id].phone = NULL
    THEN [s EXCEPT !.leads[id].phone = phone,
                   !.leads[id].updated_at = s.now,
                   !.phoneWrites = @ + 1]
    ELSE s

NoPhoneResult == [success |-> FALSE, alreadyExists |-> FALSE, fromCache |-> FALSE,
                  fromLinkedIn |-> FALSE, phone |-> NULL]

\* a reveal whose LinkedIn step finds a phone on the profile
revealFromLinkedIn(s, id, lead, linkedinUrl, i) ==
    [s |-> s,
     r |-> [success |-> TRUE, alreadyExists |-> FALSE, fromCache |-> FALSE,
            fromLinkedIn |-> TRUE, phone |-> Phone1]]

\* returns the store after the reveal and the reveal's result
revealPhoneNumber(s, id, lead, linkedinUrl, i) ==
    IF Truthy(lead.phone)
    THEN [s |-> s,
          r |-> [success |-> TRUE, alreadyExists |-> TRUE, fromCache |-> FALSE,
                 fromLinkedIn |-> FALSE, phone |-> lead.phone]]
    ELSE LET rows == revealCacheQuery(linkedinUrl)
             cached == CHOOSE row \in rows : TRUE
         IN IF /\ ~Fail(i, "revealCacheQuery")
               /\ rows # {}
               /\ Truthy(cached.employee_phone)
               /\ ~Fail(i, "revealUpdate")
            THEN [s |-> UpdateLeadPhone(s, id, cached.employee_phone),
                  r |-> [success |-> TRUE, alreadyExists |-> FALSE, fromCache |-> TRUE,
                         fromLinkedIn |-> FALSE, phone |-> cached.employee_phone]]
            ELSE \* cacheError is caught; LinkedIn and Apollo steps are placeholders
                 [s |-> s, r |-> NoPhoneResult]

\* ------------------------------------------------------------------------
\* LinkedInWebhookService.triggerAutoCall
\* ------------------------------------------------------------------------
\* trim, drop whitespace, "-", "(", ")", "."; keep a leading "+"; drop non-digits
CleanPhone(phoneNumber) ==
    LET stripped == SelectSeq(phoneNumber,
                              LAMBDA c : c \notin {" ", "-", "(", ")", "."})
    IN IF Len(stripped) > 0 /\ stripped[1] = "+"
       THEN <<"+">> \o SelectSeq(Tail(stripped), LAMBDA c : c \in Digits)
       ELSE SelectSeq(stripped, LAMBDA c : c \in Digits)

\* !cleanPhone || cleanPhone.length < 5
InvalidPhone(cleanPhone) == ~Truthy(cleanPhone) \/ Len(cleanPhone) < MinPhoneLength

\* lead.agent_id (never selected), organization default, DEFAULT_VOICE_AGENT_ID || '24'
AgentId(org, i) ==
    LET rows == { r \in organization_settings : r.organization_id = org }
    IN IF org # 0 /\ ~Fail(i, "agentQuery") /\ rows # {}
       THEN (CHOOSE r \in rows : TRUE).value
       ELSE "24"

\* axios.post rejects: timeout, transport error, non-2xx status
PostThrows(resp) == resp \in {"timeout", "transport_error"}

\* a test that takes every answer of the call service for an accepted call
EveryAnswerInitiates(resp) == TRUE

\* callResponse.data?.success !== false
CallInitiated(resp) == resp # "success_false"

CallResult(success, error) == [success |-> success, error |-> error]

\* the call service accepted the request; it may log the call for later checks
CallAccepted(s, id, i) ==
    [s EXCEPT !.dispatched[id] = Cap2(@),
              !.okCalls = @ + 1,
              !.call_logs = IF i.logged
                            THEN @ \cup {[target |-> id, started_at |-> s.now]}
                            ELSE @]

\* lines 905-937: the stage update, whose errors are caught and logged
CallTriggeredUpdate(s, id, org, i) ==
    IF Fail(i, "callStageQuery") \/ Fail(i, "callStageUpdate")
    THEN s
    ELSE LET key == StageKeyByFragment(org, FALSE, <<"triggered">>,
                                       STAGE_CALL_TRIGGERED)
             u == UpdateLead(s, id, "call_triggered", key)
         IN [u EXCEPT !.triggered[id] = Cap2(@), !.trigUpdates = @ + 1]

\* returns the store after the call and the call's result
triggerAutoCall(s, id, lead, linkedinUrl, i) ==
    IF ~autoCallEnabled(s.env)
    THEN [s |-> s, r |-> CallResult(FALSE, "Auto-call is disabled")]
    ELSE
    LET cacheRows == { row \in employees_cache :
                         /\ row.employee_linkedin_url = linkedinUrl
                         /\ Truthy(row.employee_phone) }
        phoneNumber ==
            IF Truthy(lead.phone) THEN lead.phone
            ELSE IF ~Fail(i, "callCacheQuery") /\ cacheRows # {}
                 THEN (CHOOSE row \in cacheRows : TRUE).employee_phone
                 ELSE NULL
        cleanPhone == CleanPhone(phoneNumber)
    IN IF ~Truthy(phoneNumber)
       THEN [s |-> s, r |-> CallResult(FALSE, "No phone number available")]
       ELSE IF InvalidPhone(cleanPhone)
       THEN [s |-> s, r |-> CallResult(FALSE, "Invalid phone number format")]
       ELSE
       LET posted == [s EXCEPT !.attempts = @ + 1,
                               !.request = [lead_id |-> id, to_number |-> cleanPhone,
                                            agent_id |-> AgentId(lead.organization_id, i)]]
       IN IF PostThrows(i.resp)
          THEN [s |-> posted, r |-> CallResult(FALSE, i.resp)]
          ELSE IF CallInitiated(i.resp)
          THEN [s |-> CallTriggeredUpdate(CallAccepted(posted, id, i), id,
                                          lead.organization_id, i),
                r |-> CallResult(TRUE, "")]
          ELSE [s |-> posted, r |-> CallResult(FALSE, "")]

\* ------------------------------------------------------------------------
\* LinkedInWebhookService.handleConnectionAccepted
\* ------------------------------------------------------------------------
\* `${payload.timestamp || Date.now()}_${user_profile_url || user_public_identifier
\*   || 'unknown'}`; timestamp 0 stands for an absent (or falsy) timestamp
EventId(p, t) ==
    << IF p.timestamp # 0 THEN p.timestamp ELSE t,
       Or2(Or2(p.user_profile_url, p.user_public_identifier), <<"unknown">>) >>

\* a duplicate test that never finds the fingerprint
NeverDuplicate(processed, eventId) == FALSE

\* this.processedEvents.has(eventId)
IsDuplicate(processed, eventId) == eventId \in SeqToSet(processed)

\* a set that never evicts
MarkProcessedUnbounded(processed, eventId) == Append(processed, eventId)

\* processedEvents.add(eventId); if (size > 1000) delete(values().next().value)
MarkProcessed(processed, eventId) ==
    LET added == Append(processed, eventId)
    IN IF Len(added) > MaxProcessedEvents THEN Tail(added) ELSE added

\* data.user_profile_url || recipient.linkedin_profile_url || recipient.profile_url
\*   || recipient.linkedin_url || data.linkedin_url || data.profile_url
AcceptedSubject(p) ==
    Or2(p.user_profile_url,
    Or2(p.recipient_linkedin_profile_url,
    Or2(p.recipient_profile_url,
    Or2(p.recipient_linkedin_url,
    Or2(p.linkedin_url, p.profile_url)))))

\* payload.timestamp || data.timestamp
PayloadTimestamp(p) == IF p.timestamp # 0 THEN p.timestamp ELSE p.data_timestamp

\* acceptanceTimestamp && acceptanceTimestamp < Date.now() - 24h
IsStale(ts, t) == ts # 0 /\ ts < t - TWENTY_FOUR_HOURS

\* charAt(0).toUpperCase() on the letters the model uses
UpperTok(c) ==
    CASE c = "j" -> "J" [] c = "a" -> "A" [] c = "k" -> "K" [] c = "z" -> "Z"
      [] OTHER -> c

\* user_public_identifier.split('-')
RECURSIVE SplitDash(_, _)
SplitDash(s, cur) ==
    IF s = << >> THEN <<cur>>
    ELSE IF Head(s) = "-" THEN <<cur>> \o SplitDash(Tail(s), << >>)
    ELSE SplitDash(Tail(s), Append(cur, Head(s)))

\* /^\d+$/.test(part)
AllDigits(part) == part # << >> /\ \A k \in 1..Len(part) : part[k] \in Digits

RECURSIVE JoinSpace(_)
JoinSpace(parts) ==
    IF parts = << >> THEN << >>
    ELSE IF Len(parts) = 1 THEN Head(parts)
    ELSE Head(parts) \o <<" ">> \o JoinSpace(Tail(parts))

Capitalize(part) ==
    IF part = << >> THEN part ELSE <<UpperTok(Head(part))>> \o Tail(part)

\* lines 142-160: the name of an auto-created lead
LeadName(p) ==
    LET parts == SelectSeq(SplitDash(p.user_public_identifier, << >>),
                           LAMBDA q : ~AllDigits(q))
        derived == IF ~Truthy(p.full_name) /\ Truthy(p.user_public_identifier)
                      /\ Len(parts) > 0
                   THEN JoinSpace([k \in 1..Len(parts) |-> Capitalize(parts[k])])
                   ELSE p.full_name
    IN IF Truthy(derived) THEN derived ELSE <<"LinkedIn User">>

\* lines 366-387: the call decision after the phone reveal
AcceptedCall(s, i, id, normalizedUrl, reveal) ==
    LET leadWithPhone == s.leads[id]
    IN IF autoCallEnabled(s.env) /\ ~batchModeEnabled(s.env)
       THEN IF Truthy(leadWithPhone.phone)
            THEN LET c == triggerAutoCall(s, id, leadWithPhone, normalizedUrl, i)
                 IN [c.s EXCEPT !.call = IF c.r.success THEN "initiated" ELSE "failed"]
            ELSE IF reveal.success /\ reveal.fromLinkedIn /\ Truthy(reveal.phone)
            THEN LET c == triggerAutoCall(s, id,
                              [leadWithPhone EXCEPT !.phone = reveal.phone],
                              normalizedUrl, i)
                 IN [c.s EXCEPT !.call = IF c.r.success THEN "initiated" ELSE "failed"]
            ELSE s
       ELSE IF autoCallEnabled(s.env) /\ batchModeEnabled(s.env)
       THEN [s EXCEPT !.call = "queued"]
       ELSE s

\* a stage guard that never fires
StageGuardNeverFires(lead) == FALSE

\* lead.stage === 'call_triggered'
AlreadyCallTriggered(lead) == lead.stage = STAGE_CALL_TRIGGERED

\* lines 230-405: the guards, the request_accepted update and the side effects
ProcessAcceptedLead(s0, p, i, id, normalizedUrl) ==
    LET s == [s0 EXCEPT !.leadId = id]
        lead == s.leads[id]
    IN
    IF IsStale(PayloadTimestamp(p), s.now)
    THEN Return(s, TRUE, TRUE, "acceptance_too_old")
    ELSE IF Fail(i, "existingCallQuery") THEN Throw(s, "existingCallQuery")
    ELSE IF existingCallQuery(s, id) # {}
    THEN Return(s, TRUE, TRUE, "call_already_made")
    ELSE IF AlreadyCallTriggered(lead)
    THEN Return(s, TRUE, TRUE, "stage_already_call_triggered")
    ELSE IF Fail(i, "stageQuery") THEN Throw(s, "stageQuery")
    ELSE IF Fail(i, "updateQuery") THEN Throw(s, "updateQuery")
    ELSE
    LET acceptedStageKey == StageKeyByFragment(lead.organization_id, FALSE,
                                               <<"accepted">>, STAGE_REQUEST_ACCEPTED)
        u == [UpdateLead(s, id, "request_accepted", acceptedStageKey)
                 EXCEPT !.accUpdates = @ + 1]
        rv == revealPhoneNumber(u, id, u.leads[id], normalizedUrl, i)
        phoneNumber == Or2(rv.s.leads[id].phone,
                           IF rv.r.success THEN rv.r.phone ELSE NULL)
        revealed == [rv.s EXCEPT !.reveal = rv.r]
    IN IF Fail(i, "leadWithPhoneQuery") THEN Throw(revealed, "leadWithPhoneQuery")
       ELSE IF Truthy(phoneNumber) /\ Fail(i, "recentCallCheck")
       THEN Throw(revealed, "recentCallCheck")
       ELSE IF Truthy(phoneNumber) /\ recentCallCheck(revealed, phoneNumber) # {}
       THEN Return(revealed, TRUE, TRUE, "call_already_made_for_phone")
       ELSE Return(AcceptedCall(revealed, i, id, normalizedUrl, rv.r),
                   TRUE, FALSE, "request_accepted")

\* a cache check that lets every subject through
EveryoneInEmployeesCache(rows) == FALSE

\* employeeCacheCheck.rows.length === 0
NotInEmployeesCache(rows) == rows = {}

\* an insert that leaves the new lead at status "new" with no stage
NewLeadRowWithoutStage(fullName, organizationId, t) ==
    [name |-> fullName, status |-> "new", stage |-> NULL,
     organization_id |-> organizationId, phone |-> NULL, is_deleted |-> FALSE,
     updated_at |-> t]

\* INSERT INTO leads (name, status, stage, source, channel, organization_id, ...)
NewLeadRow(fullName, organizationId, t) ==
    [name |-> fullName, status |-> "request_accepted", stage |-> STAGE_REQUEST_ACCEPTED,
     organization_id |-> organizationId, phone |-> NULL, is_deleted |-> FALSE,
     updated_at |-> t]

\* lines 118-228: no lead matches; create one if the employees cache knows the URL
AutoCreateLead(s, p, i, normalizedUrl, urlForMatching) ==
    IF Fail(i, "employeeCacheCheck") THEN Throw(s, "employeeCacheCheck")
    ELSE IF NotInEmployeesCache(employeeCacheCheck(normalizedUrl, urlForMatching))
    THEN Return(s, TRUE, TRUE, "not_in_employees_cache")
    ELSE IF Fail(i, "createLead") THEN Throw(s, "createLead")
    ELSE
    LET orgs == IF Fail(i, "orgQuery") THEN {} ELSE orgQuery(s)
        organizationId == IF orgs = {} THEN 0 ELSE PickRow(orgs, i.orgPick)
        id == Len(s.leads) + 1
        inserted ==
            [s EXCEPT !.leads = Append(@, NewLeadRow(LeadName(p), organizationId, s.now)),
                      !.lead_social = Append(@, NULL),
                      !.dispatched = Append(@, 0),
                      !.triggered = Append(@, 0)]
        linked == [inserted EXCEPT !.lead_social[id] = normalizedUrl]
    IN IF Fail(i, "createLeadSocial") THEN Throw(inserted, "createLeadSocial")
       ELSE ProcessAcceptedLead(linked, p, i, id, normalizedUrl)

handleConnectionAccepted(s0, p, i) ==
    LET eventId == EventId(p, s0.now)
        s == [s0 EXCEPT !.processedEvents = MarkProcessed(@, eventId)]
        linkedinUrl == AcceptedSubject(p)
        normalizedUrl == normalizeLinkedInUrl(linkedinUrl)
        urlForMatching == UrlForMatching(normalizedUrl)
        rows == leadQuery(s, normalizedUrl, urlForMatching)
    IN IF IsDuplicate(s0.processedEvents, eventId)
       THEN Return(s0, FALSE, FALSE, "Duplicate event - already processed")
       ELSE IF ~Truthy(linkedinUrl) THEN Return(s, FALSE, FALSE, "undefined")
       ELSE IF Fail(i, "leadQuery") THEN Throw(s, "leadQuery")
       ELSE IF rows = {}
       THEN AutoCreateLead(s, p, i, normalizedUrl, urlForMatching)
       ELSE ProcessAcceptedLead(s, p, i, PickRow(rows, i.pick), normalizedUrl)

\* ------------------------------------------------------------------------
\* LinkedInWebhookService.handleConnectionSent / handleConnectionDeclined
\* ------------------------------------------------------------------------
\* an extraction that falls back to a fixed profile when the body names none
RecipientSubjectOrDefault(p) ==
    Or2(p.recipient_linkedin_profile_url,
    Or2(p.recipient_profile_url,
    Or2(p.recipient_linkedin_url,
    Or2(p.linkedin_url, Canon(SlugJ)))))

\* recipient.linkedin_profile_url || recipient.profile_url || recipient.linkedin_url
\*   || data.linkedin_url
RecipientSubject(p) ==
    Or2(p.recipient_linkedin_profile_url,
    Or2(p.recipient_profile_url,
    Or2(p.recipient_linkedin_url, p.linkedin_url)))

\* LOWER(name) LIKE '%request sent%' OR '%connection sent%' OR '%sent%': the last
\* pattern matches whatever the first two match
SentStageKey(org) == StageKeyByFragment(org, TRUE, <<"sent">>, STAGE_REQUEST_SENT)

handleConnectionSent(s, p, i) ==
    LET linkedinUrl == RecipientSubject(p)
        normalizedUrl == normalizeLinkedInUrl(linkedinUrl)
        urlForMatching == UrlForMatching(normalizedUrl)
        rows == leadQuery(s, normalizedUrl, urlForMatching)
        id == PickRow(rows, i.pick)
        found == [s EXCEPT !.leadId = id]
    IN IF ~Truthy(linkedinUrl) THEN Return(s, FALSE, FALSE, "undefined")
       ELSE IF Fail(i, "leadQuery") THEN Throw(s, "leadQuery")
       ELSE IF rows = {} THEN Return(s, FALSE, FALSE, "undefined")
       ELSE IF Fail(i, "stageQuery") THEN Throw(found, "stageQuery")
       ELSE IF Fail(i, "updateQuery") THEN Throw(found, "updateQuery")
       ELSE Return(UpdateLead(found, id, "request_sent",
                              SentStageKey(s.leads[id].organization_id)),
                   TRUE, FALSE, "request_sent")

handleConnectionDeclined(s, p, i) ==
    LET linkedinUrl == RecipientSubject(p)
        normalizedUrl == normalizeLinkedInUrl(linkedinUrl)
        urlForMatching == UrlForMatching(normalizedUrl)
        rows == leadQuery(s, normalizedUrl, urlForMatching)
        id == PickRow(rows, i.pick)
        found == [s EXCEPT !.leadId = id]
    IN IF ~Truthy(linkedinUrl) THEN Return(s, FALSE, FALSE, "undefined")
       ELSE IF Fail(i, "leadQuery") THEN Throw(s, "leadQuery")
       ELSE IF rows = {} THEN Return(s, FALSE, FALSE, "undefined")
       ELSE IF Fail(i, "updateQuery") THEN Throw(found, "updateQuery")
       ELSE Return(UpdateLead(found, id, "request_declined", s.leads[id].stage),
                   TRUE, FALSE, "request_declined")

\* ------------------------------------------------------------------------
\* LinkedInWebhookService.handleAccountStatusChanged
\* ------------------------------------------------------------------------
\* Status messages are sequences of single characters, so that toUpperCase,
\* toLowerCase and includes work on the text.
LowerCaseLetters ==
    <<"a", "b", "c", "d", "e", "f", "g", "h", "i", "j", "k", "l", "m",
      "n", "o", "p", "q", "r", "s", "t", "u", "v", "w", "x", "y", "z">>

UpperCaseLetters ==
    <<"A", "B", "C", "D", "E", "F", "G", "H", "I", "J", "K", "L", "M",
      "N", "O", "P", "Q", "R", "S", "T", "U", "V", "W", "X", "Y", "Z">>

UpperChar(c) ==
    IF \E k \in 1..26 : LowerCaseLetters[k] = c
    THEN UpperCaseLetters[CHOOSE k \in 1..26 : LowerCaseLetters[k] = c]
    ELSE c

LowerChar(c) ==
    IF \E k \in 1..26 : UpperCaseLetters[k] = c
    THEN LowerCaseLetters[CHOOSE k \in 1..26 : UpperCaseLetters[k] = c]
    ELSE c

\* the case labels of the switch
OK == <<"O", "K">>
CREATION_SUCCESS == <<"C", "R", "E", "A", "T", "I", "O", "N", "_", "S", "U", "C", "C", "E", "S", "S">>
RECONNECTED == <<"R", "E", "C", "O", "N", "N", "E", "C", "T", "E", "D">>
SYNC_SUCCESS == <<"S", "Y", "N", "C", "_", "S", "U", "C", "C", "E", "S", "S">>
ERROR == <<"E", "R", "R", "O", "R">>
STOPPED == <<"S", "T", "O", "P", "P", "E", "D">>
CREDENTIALS == <<"C", "R", "E", "D", "E", "N", "T", "I", "A", "L", "S">>
CONNECTING == <<"C", "O", "N", "N", "E", "C", "T", "I", "N", "G">>
DELETED == <<"D", "E", "L", "E", "T", "E", "D">>

\* the words the default branch looks for
connected == <<"c", "o", "n", "n", "e", "c", "t", "e", "d">>
active == <<"a", "c", "t", "i", "v", "e">>
disconnected == <<"d", "i", "s", "c", "o", "n", "n", "e", "c", "t", "e", "d">>
stopped == <<"s", "t", "o", "p", "p", "e", "d">>
checkpoint == <<"c", "h", "e", "c", "k", "p", "o", "i", "n", "t">>
credential == <<"c", "r", "e", "d", "e", "n", "t", "i", "a", "l">>

\* the default of the || chain
unknown == <<"u", "n", "k", "n", "o", "w", "n">>

\* a message that is a number: it has no toUpperCase
NumberMessage == <<"#503">>

IsString(message) == message # NumberMessage

\* a comparison that forgets to fold the case
KeepCase(message) == message

\* statusMessage.toUpperCase()
ToUpperCase(message) == [k \in 1..Len(message) |-> UpperChar(message[k])]

\* statusMessage.toLowerCase()
ToLowerCase(message) == [k \in 1..Len(message) |-> LowerChar(message[k])]

\* statusMessage.toLowerCase().includes(word)
Includes(message, word) == Contains(ToLowerCase(message), word)

\* lines 621-660: the switch over statusMessage.toUpperCase() and its default branch
mappedStatus(statusMessage) ==
    LET upper == ToUpperCase(statusMessage)
    IN CASE upper \in {OK, CREATION_SUCCESS, RECONNECTED, SYNC_SUCCESS} -> "connected"
         [] upper \in {ERROR, STOPPED} -> "stopped"
         [] upper = CREDENTIALS -> "checkpoint"
         [] upper = CONNECTING -> "connecting"
         [] upper = DELETED -> "disconnected"
         [] OTHER ->
              IF Includes(statusMessage, connected) \/ Includes(statusMessage, active)
              THEN "connected"
              ELSE IF Includes(statusMessage, disconnected)
                      \/ Includes(statusMessage, stopped)
              THEN "disconnected"
              ELSE IF Includes(statusMessage, checkpoint)
                      \/ Includes(statusMessage, credential)
              THEN "checkpoint"
              ELSE "unknown"

\* a flag that stays set for every status except the stopped ones
ActiveUnlessStopped(statusMessage) == ToUpperCase(statusMessage) \notin {ERROR, STOPPED}

\* lines 622-660: isConnected starts false and is assigned in each branch of the switch
isConnected(statusMessage) ==
    LET upper == ToUpperCase(statusMessage)
    IN CASE upper \in {OK, CREATION_SUCCESS, RECONNECTED, SYNC_SUCCESS} -> TRUE
         [] upper \in {ERROR, STOPPED} -> FALSE
         [] upper = CREDENTIALS -> FALSE
         [] upper = CONNECTING -> FALSE
         [] upper = DELETED -> FALSE
         [] OTHER ->
              IF Includes(statusMessage, connected) \/ Includes(statusMessage, active)
              THEN TRUE
              ELSE FALSE

\* a TypeError thrown inside a try block and rethrown by its catch
ThrowTypeError(s) ==
    [s EXCEPT !.out = [outcome |-> "threw", success |-> FALSE,
                       skipped |-> FALSE, reason |-> "TypeError"]]

\* an UPDATE linkedin_integrations without its WHERE clause
UpdateEveryIntegration(s, unipileAccountId, statusMessage) ==
    [s EXCEPT !.linkedin_integrations =
        [a \in DOMAIN @ |->
            [@[a] EXCEPT !.is_active = isConnected(statusMessage),
                         !.status = mappedStatus(statusMessage),
                         !.status_message = statusMessage,
                         !.last_status_update = s.now]]]

\* UPDATE linkedin_integrations SET is_active, connection_data || {...}
\*   WHERE unipile_account_id = $5
UpdateIntegration(s, unipileAccountId, statusMessage) ==
    IF unipileAccountId \in DOMAIN s.linkedin_integrations
    THEN [s EXCEPT !.linkedin_integrations[unipileAccountId] =
            [@ EXCEPT !.is_active = isConnected(statusMessage),
                      !.status = mappedStatus(statusMessage),
                      !.status_message = statusMessage,
                      !.last_status_update = s.now]]
    ELSE s

\* a is payload.AccountStatus or the payload itself
handleAccountStatusChanged(s, a, i) ==
    LET unipileAccountId == a.account_id
        statusMessage == Or2(a.message, Or2(a.status, unknown))
    IN IF unipileAccountId = "" THEN Return(s, FALSE, FALSE, "undefined")
       ELSE IF ~IsString(statusMessage) THEN ThrowTypeError(s)
       ELSE IF Fail(i, "accountUpdate") THEN Throw(s, "accountUpdate")
       ELSE Return(UpdateIntegration(s, unipileAccountId, statusMessage),
                   TRUE, FALSE, mappedStatus(statusMessage))

\* ------------------------------------------------------------------------
\* Deliveries: payloads and the environment's answers
\* ------------------------------------------------------------------------
NoBody ==
    [malformed |-> FALSE, AccountStatus |-> FALSE, account_id |-> "", message |-> NULL,
     status |-> NULL, event |-> "", type |-> "", object |-> "",
     timestamp |-> 0, data_timestamp |-> 0,
     user_profile_url |-> NULL, user_public_identifier |-> NULL,
     recipient_linkedin_profile_url |-> NULL, recipient_profile_url |-> NULL,
     recipient_linkedin_url |-> NULL, linkedin_url |-> NULL, profile_url |-> NULL,
     full_name |-> NULL]

\* timestamps a delivery received at time t may carry: none, 24 hours old, 48 hours old
Timestamps(t) == {0, t - TWENTY_FOUR_HOURS, t - 2 * TWENTY_FOUR_HOURS}

Accepted(ts, url) ==
    [NoBody EXCEPT !.event = "new_relation", !.timestamp = ts, !.user_profile_url = url]

\* acceptance events received at time t
AcceptedPayloads(t) ==
    { Accepted(ts, Canon(SlugJ)) : ts \in Timestamps(t) }
    \cup
    { [Accepted(0, <<"http://", "www.", "linkedin.com", "/in/">> \o SlugA
                      \o <<"?", "x=1">>) EXCEPT !.data_timestamp = dts] :
        dts \in {0, t - 2 * TWENTY_FOUR_HOURS} }
    \cup
    { [Accepted(ts, Canon(SlugK)) EXCEPT
          !.user_public_identifier = SlugK \o <<"-", "4", "2">>] :
        ts \in {0, t - 2 * TWENTY_FOUR_HOURS} }
    \cup
    { Accepted(0, Canon(SlugZ)),
      Accepted(0, NULL),
      [NoBody EXCEPT !.event = "connection.accepted",
                     !.timestamp = t - TWENTY_FOUR_HOURS,
                     !.recipient_linkedin_profile_url = Canon(SlugA),
                     !.full_name = <<"Test User">>] }

FailPoints ==
    { "leadQuery", "employeeCacheCheck", "orgQuery", "createLead", "createLeadSocial",
      "existingCallQuery", "stageQuery", "updateQuery", "revealCacheQuery",
      "revealUpdate", "leadWithPhoneQuery", "recentCallCheck", "agentQuery",
      "callStageQuery", "callStageUpdate", "accountUpdate" }

CallResponses ==
    { "success_true", "no_success_field", "success_false", "timeout", "transport_error" }

\* what the environment does during one delivery: at most one query fails; the call
\* service's answer; whether the call service logs an accepted call; LIMIT 1 picks
Inputs ==
    { [fail |-> f, resp |-> "success_true", logged |-> TRUE, pick |-> 0, orgPick |-> 1] :
        f \in FailPoints }
    \cup
    { [fail |-> f, resp |-> "success_true", logged |-> FALSE, pick |-> 0,
       orgPick |-> 1] : f \in {"callStageQuery", "callStageUpdate"} }
    \cup
    { [fail |-> "none", resp |-> r, logged |-> TRUE, pick |-> 0, orgPick |-> 1] :
        r \in CallResponses }
    \cup
    { [fail |-> "none", resp |-> "success_true", logged |-> l, pick |-> 0,
       orgPick |-> 2] : l \in BOOLEAN }
    \cup
    { [fail |-> "none", resp |-> "success_true", logged |-> FALSE, pick |-> 0,
       orgPick |-> 1] }

\* the time that passes before a delivery: a day or a week
Elapsed == {TWENTY_FOUR_HOURS, SEVEN_DAYS}

NoLead == [name |-> NULL, status |-> "", stage |-> NULL, organization_id |-> 0,
           phone |-> NULL, is_deleted |-> FALSE, updated_at |-> 0]

NoRequest == [lead_id |-> 0, to_number |-> NULL, agent_id |-> ""]

NotRevealed == [success |-> FALSE, alreadyExists |-> FALSE, fromCache |-> FALSE,
                fromLinkedIn |-> FALSE, phone |-> <<"not run">>]

NoOut == [outcome |-> "none", success |-> FALSE, skipped |-> FALSE, reason |-> ""]

\* the store as a handler that starts at time t finds it, with nothing observed yet
Store(t) ==
    [leads |-> leads, lead_social |-> lead_social, call_logs |-> call_logs,
     linkedin_integrations |-> linkedin_integrations,
     processedEvents |-> processedEvents, now |-> t, env |-> env,
     dispatched |-> dispatched, triggered |-> triggered,
     leadId |-> 0, attempts |-> 0, okCalls |-> 0, accUpdates |-> 0,
     trigUpdates |-> 0, phoneWrites |-> 0, call |-> "none", request |-> NoRequest,
     reveal |-> NotRevealed, out |-> NoOut]

NoLast ==
    [handler |-> "none", payload |-> NoBody, out |-> NoOut, leadId |-> 0, created |-> 0,
     attempts |-> 0, okCalls |-> 0, accUpdates |-> 0, trigUpdates |-> 0,
     phoneWrites |-> 0, call |-> "none", request |-> NoRequest, reveal |-> NotRevealed,
     pre |-> NoLead, wasDuplicate |-> FALSE, resp |-> "",
     prev |-> [handler |-> "none", payload |-> NoBody, attempts |-> 0, okCalls |-> 0,
               accUpdates |-> 0, trigUpdates |-> 0]]

\* what the delivery that led from the current store to r did
Observed(handler, p, i, r) ==
    [handler |-> handler, payload |-> p, out |-> r.out, leadId |-> r.leadId,
     created |-> Len(r.leads) - Len(leads), attempts |-> r.attempts, okCalls |-> r.okCalls,
     accUpdates |-> r.accUpdates, trigUpdates |-> r.trigUpdates,
     phoneWrites |-> r.phoneWrites, call |-> r.call, request |-> r.request,
     reveal |-> r.reveal,
     pre |-> IF r.leadId \in 1..Len(leads) THEN leads[r.leadId] ELSE NoLead,
     wasDuplicate |-> /\ handler = "handleConnectionAccepted"
                      /\ IsDuplicate(processedEvents, EventId(p, r.now)),
     resp |-> IF r.attempts > 0 THEN i.resp ELSE "",
     prev |-> [handler |-> last.handler, payload |-> last.payload,
               attempts |-> last.attempts, okCalls |-> last.okCalls,
               accUpdates |-> last.accUpdates,
               trigUpdates |-> last.trigUpdates]]

\* normalizeLinkedInUrl has not been called directly
NoProbe == [input |-> NULL, output |-> NULL]

\* no function of the REST API has been called
NoDirectCall == [fn |-> "none"]

\* a processNewEmployees call that has not been made
NoRun == [pc |-> "idle", result |-> "", queries |-> 0, users |-> 0,
          enteredWhileActive |-> FALSE, afterStop |-> FALSE]

\* a startNotificationListener call that has not been made
NoListen == [pc |-> "idle", result |-> "", afterStop |-> FALSE]

\* the calls the model follows
Runs == 1..MaxRuns

Listens == 1..MaxListens

\* new EmployeeAutoProcessor(db): the constructor's fields, no timer set, no client
\* created, no call made
NewProcessor ==
    [isProcessing |-> FALSE, isListening |-> FALSE, notificationClient |-> 0,
     scheduledInterval |-> FALSE, started |-> FALSE, stopped |-> FALSE,
     ended |-> {}, handlers |-> [c \in Listens |-> 0],
     notifyTimers |-> 0, reconnectTimers |-> 0,
     runs |-> [q \in Runs |-> NoRun], listens |-> [c \in Listens |-> NoListen]]

\* a handleConnectionAccepted call and the locals it holds across its awaits
NotInFlight ==
    [pc |-> "idle", payload |-> NoBody, eventId |-> << >>, passed |-> FALSE, id |-> 0,
     lead |-> NoLead, updatedLead |-> NoLead, reveal |-> NotRevealed,
     leadWithPhone |-> NoLead, phoneNumber |-> NULL, posted |-> 0, result |-> "",
     organizationId |-> 0]

\* the requests the event loop can hold at once
Requests == 1..MaxRequests

NoneInFlight == [q \in Requests |-> NotInFlight]

\* the store a handler leaves behind becomes the state
Commit(r) ==
    /\ leads' = r.leads
    /\ lead_social' = r.lead_social
    /\ call_logs' = r.call_logs
    /\ linkedin_integrations' = r.linkedin_integrations
    /\ processedEvents' = r.processedEvents
    /\ dispatched' = r.dispatched
    /\ triggered' = r.triggered
    /\ now' = r.now
    /\ nEvents' = nEvents + 1
    /\ UNCHANGED <<env, probe, inflight, direct, processor>>

Init ==
    /\ leads = InitialLeads
    /\ lead_social = InitialLeadSocial
    /\ call_logs = {}
    /\ linkedin_integrations = InitialIntegrations
    /\ processedEvents = << >>
    /\ now = StartTime
    /\ env \in [LINKEDIN_AUTO_CALL_ENABLED : {"", "false"},
                LINKEDIN_BATCH_CALL_ENABLED : {"", "true"}]
    /\ dispatched = <<0, 0>>
    /\ triggered = <<0, 0>>
    /\ nEvents = 0
    /\ last = NoLast
    /\ response = [status |-> 0, success |-> FALSE, error |-> ""]
    /\ probe = NoProbe
    /\ inflight = NoneInFlight
    /\ direct = NoDirectCall
    /\ processor = NewProcessor

\* an acceptance event reaches LinkedInWebhookService.handleConnectionAccepted
ConnectionAccepted ==
    /\ nEvents < MaxEvents
    /\ \E d \in Elapsed : \E p \in AcceptedPayloads(now + d), i \in Inputs :
          LET r == handleConnectionAccepted(Store(now + d), p, i)
          IN /\ Commit(r)
             /\ last' = Observed("handleConnectionAccepted", p, i, r)
    /\ UNCHANGED response

NextAccept == ConnectionAccepted

SpecAccept == Init /\ [][NextAccept]_vars

\* ------------------------------------------------------------------------
\* SocialIntegrationController.handleWebhook
\* ------------------------------------------------------------------------
\* res.status(200).json({ success: true, message: ... })
Acknowledge == [status |-> 200, success |-> TRUE, error |-> ""]

\* a catch block that answers with a server error
ServerErrorResponse(message) == [status |-> 500, success |-> FALSE, error |-> message]

\* the catch block: res.status(200).json({ success: false, error: error.message, ... })
ErrorResponse(message) == [status |-> 200, success |-> FALSE, error |-> message]

\* a lookup that prefers payload.type to payload.event
TypeBeforeEvent(p) ==
    IF p.type # "" THEN p.type ELSE IF p.event # "" THEN p.event ELSE p.object

\* payload.event || payload.type || payload.object
EventOf(p) == IF p.event # "" THEN p.event ELSE IF p.type # "" THEN p.type ELSE p.object

\* the switch over the event name
HandlerFor(event) ==
    CASE event \in {"connection.accepted", "invitation.accepted", "new_relation",
                    "relation"} -> "handleConnectionAccepted"
      [] event \in {"connection.sent", "invitation.sent"} -> "handleConnectionSent"
      [] event \in {"connection.declined", "invitation.declined"}
            -> "handleConnectionDeclined"
      [] event \in {"account.status_changed", "account.status",
                    "account.state_changed", "account.state"}
            -> "handleAccountStatusChanged"
      [] OTHER -> "none"

\* a dispatch that looks at the event name before the AccountStatus wrapper
DispatchByEventFirst(p) ==
    IF p.malformed THEN "none"
    ELSE IF HandlerFor(EventOf(p)) # "none" THEN HandlerFor(EventOf(p))
    ELSE IF p.AccountStatus THEN "handleAccountStatusChanged"
    ELSE "none"

\* the handler a delivery reaches; a body with AccountStatus goes to the account
\* handler whatever its event says, and req.body undefined reaches none
Dispatch(p) ==
    IF p.malformed THEN "none"
    ELSE IF p.AccountStatus THEN "handleAccountStatusChanged"
    ELSE HandlerFor(EventOf(p))

\* the store the dispatched handler leaves and how it ended
Handled(s, p, i) ==
    LET h == Dispatch(p)
    IN CASE p.malformed -> ThrowTypeError(s)
         [] h = "handleConnectionAccepted" -> handleConnectionAccepted(s, p, i)
         [] h = "handleConnectionSent" -> handleConnectionSent(s, p, i)
         [] h = "handleConnectionDeclined" -> handleConnectionDeclined(s, p, i)
         [] h = "handleAccountStatusChanged" -> handleAccountStatusChanged(s, p, i)
         [] OTHER -> s

\* the handler's result is dropped; only an exception changes the response
ResponseTo(r) ==
    IF r.out.outcome = "threw" THEN ErrorResponse(r.out.reason) ELSE Acknowledge

\* a body the JSON parser left undefined
Malformed == [NoBody EXCEPT !.malformed = TRUE]

AccountStatus(accountId, message) ==
    [NoBody EXCEPT !.AccountStatus = TRUE, !.account_id = accountId,
                   !.message = message]

Recipient(event, url) ==
    [NoBody EXCEPT !.event = event, !.recipient_linkedin_profile_url = url]

\* deliveries that do not reach handleConnectionAccepted
OtherPayloads ==
    { Recipient("connection.sent", Canon(SlugJ)),
      [NoBody EXCEPT !.type = "invitation.sent", !.linkedin_url = Canon(SlugA)],
      Recipient("connection.sent", Canon(SlugZ)),
      Recipient("invitation.sent", NULL),
      Recipient("connection.declined", Canon(SlugJ)),
      [NoBody EXCEPT !.object = "invitation.declined",
                     !.recipient_profile_url = Canon(SlugA)],
      Recipient("connection.declined", NULL),
      AccountStatus("acc1", OK),
      AccountStatus("acc1", ERROR),
      AccountStatus("acc1", disconnected),
      AccountStatus("acc2", CREDENTIALS),
      AccountStatus("acc2", NumberMessage),
      AccountStatus("acc9", OK),
      AccountStatus("", OK),
      [AccountStatus("acc2", DELETED) EXCEPT !.event = "connection.accepted",
                                                  !.user_profile_url = Canon(SlugJ)],
      [AccountStatus("acc1", STOPPED) EXCEPT !.type = "invitation.sent",
                                                  !.linkedin_url = Canon(SlugA)],
      [AccountStatus("acc1", CONNECTING) EXCEPT
          !.object = "connection.declined",
          !.recipient_linkedin_profile_url = Canon(SlugJ)],
      [NoBody EXCEPT !.event = "account.status_changed", !.account_id = "acc2",
                     !.status = <<"o", "k">>],
      [NoBody EXCEPT !.event = "account.state", !.account_id = "acc1"],
      [NoBody EXCEPT !.type = "account.status", !.object = "connection.accepted",
                     !.account_id = "acc1", !.message = CREDENTIALS,
                     !.user_profile_url = Canon(SlugJ)],
      [NoBody EXCEPT !.object = "account.state_changed", !.account_id = "acc2",
                     !.message = ERROR],
      [Recipient("connection.sent", Canon(SlugA)) EXCEPT
          !.type = "connection.declined", !.object = "new_relation"],
      [NoBody EXCEPT !.event = "message.received"],
      [NoBody EXCEPT !.event = "call.ended"],
      NoBody,
      Malformed }

\* an acceptance event named by payload.type
RelationByType == [Accepted(0, Canon(SlugJ)) EXCEPT !.event = "", !.type = "relation"]

\* an acceptance event under its fourth name
InvitationAccepted == [Accepted(0, Canon(SlugA)) EXCEPT !.event = "invitation.accepted"]

WebhookPayloads(t) ==
    AcceptedPayloads(t) \cup OtherPayloads \cup {RelationByType, InvitationAccepted}

\* the environment's answers the other handlers can tell apart
OtherInputs ==
    { i \in Inputs : /\ i.fail \in {"none", "leadQuery", "stageQuery", "updateQuery",
                                    "accountUpdate"}
                     /\ i.resp = "success_true" /\ i.logged /\ i.orgPick = 1 }

InputsFor(p) == IF Dispatch(p) = "handleConnectionAccepted" THEN Inputs ELSE OtherInputs

\* POST /webhook: one delivery, from req.body to the response
HandleWebhook ==
    /\ nEvents < MaxEvents
    /\ \E d \in Elapsed : \E p \in WebhookPayloads(now + d) : \E i \in InputsFor(p) :
          LET r == Handled(Store(now + d), p, i)
          IN /\ Commit(r)
             /\ last' = Observed(Dispatch(p), p, i, r)
             /\ response' = ResponseTo(r)

Next == HandleWebhook

Spec == Init /\ [][Next]_vars

\* ------------------------------------------------------------------------
\* The processed-event set at its capacity
\* ------------------------------------------------------------------------
\* the environment answers every query
NoFailure ==
    [fail |-> "none", resp |-> "success_true", logged |-> TRUE, pick |-> 0,
     orgPick |-> 1]

\* an acceptance event for a subject nobody knows, without a timestamp: its
\* fingerprint carries the time of receipt
FreshEvent == Accepted(0, Canon(SlugZ))

\* once the set is within one of its capacity: events that carry the timestamp of the
\* oldest and of the newest fingerprint in the set and of the one before the oldest
RepeatedEvents ==
    IF Len(processedEvents) < MaxProcessedEvents - 1 THEN {}
    ELSE { Accepted(ts, Canon(SlugZ)) :
             ts \in { Head(processedEvents)[1], Head(processedEvents)[1] - 1,
                      processedEvents[Len(processedEvents)][1] } }

DedupDelivery ==
    /\ nEvents < MaxDedupEvents
    /\ \E p \in {FreshEvent} \cup RepeatedEvents :
          LET r == handleConnectionAccepted(Store(now + TWENTY_FOUR_HOURS), p, NoFailure)
          IN /\ Commit(r)
             /\ last' = Observed("handleConnectionAccepted", p, NoFailure, r)
    /\ UNCHANGED response

NextDedup == DedupDelivery

SpecDedup == Init /\ [][NextDedup]_vars

\* ------------------------------------------------------------------------
\* The lead lookup over stores with similar profile references
\* ------------------------------------------------------------------------
\* a second profile whose slug starts with SlugJ
SlugJX == SlugJ \o <<"x">>

\* stored references of lead 1: the subject's profile in the forms a stored
\* reference takes
StoredExactForms ==
    { Canon(SlugJ),
      <<"https://", "linkedin.com", "/in/">> \o SlugJ,
      <<"http://", "www.", "linkedin.com", "/in/">> \o SlugJ }

\* stored references of lead 2: the longer slug, another profile, or no row
StoredOtherForms ==
    { Canon(SlugJX), <<"linkedin.com", "/in/">> \o SlugJX, Canon(SlugA), NULL }

\* the stores the lookup runs against: two leads imported earlier, in either order
\* of their last update, deleted or not
InitLookup ==
    /\ \E u \in {<<1, 2>>, <<2, 1>>}, del1 \in BOOLEAN, del2 \in BOOLEAN :
          leads = [InitialLeads EXCEPT ![1].updated_at = u[1], ![1].is_deleted = del1,
                                       ![2].updated_at = u[2], ![2].is_deleted = del2]
    /\ \E ref1 \in StoredExactForms, ref2 \in StoredOtherForms :
          lead_social = <<ref1, ref2>>
    /\ call_logs = {}
    /\ linkedin_integrations = InitialIntegrations
    /\ processedEvents = << >>
    /\ now = StartTime
    /\ env = [LINKEDIN_AUTO_CALL_ENABLED |-> "false", LINKEDIN_BATCH_CALL_ENABLED |-> ""]
    /\ dispatched = <<0, 0>>
    /\ triggered = <<0, 0>>
    /\ nEvents = 0
    /\ last = NoLast
    /\ response = [status |-> 0, success |-> FALSE, error |-> ""]
    /\ probe = NoProbe
    /\ inflight = NoneInFlight
    /\ direct = NoDirectCall
    /\ processor = NewProcessor

\* an acceptance event for SlugJ's profile reaches handleConnectionAccepted
LookupDelivery ==
    /\ nEvents < MaxLookupEvents
    /\ \E p \in { Accepted(0, Canon(SlugJ)),
                  Accepted(0, <<"linkedin.com", "/in/">> \o SlugJ \o <<"/">>) } :
          LET r == handleConnectionAccepted(Store(now + TWENTY_FOUR_HOURS), p, NoFailure)
          IN /\ Commit(r)
             /\ last' = Observed("handleConnectionAccepted", p, NoFailure, r)
    /\ UNCHANGED response

NextLookup == LookupDelivery

SpecLookup == InitLookup /\ [][NextLookup]_vars

\* ------------------------------------------------------------------------
\* Direct calls of normalizeLinkedInUrl
\* ------------------------------------------------------------------------
\* the ways one profile is written: scheme, www., slug, trailing slash, query string
ProfileForms ==
    [scheme : {<< >>, <<"http://">>, <<"https://">>},
     www : {<< >>, <<"www.">>},
     slug : {SlugJ, SlugA, <<"j", "-", "d", "4", "2">>},
     slash : {<< >>, <<"/">>},
     query : {<< >>, <<"?", "x=1">>}]

ProfileUrl(form) ==
    form.scheme \o form.www \o <<"linkedin.com", "/in/">> \o form.slug
        \o form.slash \o form.query

\* inputs without the platform domain, and the absent input
OtherUrls ==
    { NULL, SlugJ, <<"https://", "example.com", "/", "j", "d">>,
      <<"www.", "example.com", "/in/", "j", "d", "?", "x=1">> }

Normalize ==
    /\ \E url \in { ProfileUrl(form) : form \in ProfileForms } \cup OtherUrls :
          probe' = [input |-> url, output |-> normalizeLinkedInUrl(url)]
    /\ UNCHANGED <<leads, lead_social, call_logs, linkedin_integrations,
                   processedEvents, now, env, dispatched, triggered, nEvents, last,
                   response, inflight, direct, processor>>

NextNormalize == Normalize

SpecNormalize == Init /\ [][NextNormalize]_vars

\* ------------------------------------------------------------------------
\* Phone reveal next to other writers of leads.phone
\* ------------------------------------------------------------------------
\* the answers of the environment revealPhoneNumber can tell apart
RevealInputs ==
    { [NoFailure EXCEPT !.fail = f] : f \in {"none", "revealCacheQuery", "revealUpdate"} }

\* revealPhoneNumber(lead, linkedinUrl) is called with the row its caller read: the
\* current row, or the row as it was before another request set the phone
RevealPhone ==
    /\ nEvents < MaxRevealEvents
    /\ \E id \in 1..Len(leads), i \in RevealInputs :
       \E lead \in {leads[id], [leads[id] EXCEPT !.phone = NULL]} :
          LET s == [Store(now + TWENTY_FOUR_HOURS) EXCEPT !.leadId = id]
              rv == revealPhoneNumber(s, id, lead,
                                      normalizeLinkedInUrl(lead_social[id]), i)
              r == Return([rv.s EXCEPT !.reveal = rv.r], rv.r.success, FALSE,
                          "revealPhoneNumber")
          IN /\ Commit(r)
             /\ last' = Observed("revealPhoneNumber", NoBody, i, r)
    /\ UNCHANGED response

\* another request stores a phone on a lead that has none
PhoneSetElsewhere ==
    /\ nEvents < MaxRevealEvents
    /\ \E id \in 1..Len(leads) :
          /\ ~Truthy(leads[id].phone)
          /\ leads' = [leads EXCEPT ![id].phone = Phone1,
                                    ![id].updated_at = now + TWENTY_FOUR_HOURS]
    /\ now' = now + TWENTY_FOUR_HOURS
    /\ nEvents' = nEvents + 1
    /\ last' = NoLast
    /\ UNCHANGED <<lead_social, call_logs, linkedin_integrations, processedEvents, env,
                   dispatched, triggered, response, probe, inflight, direct,
                   processor>>

NextReveal == RevealPhone \/ PhoneSetElsewhere

SpecReveal == Init /\ [][NextReveal]_vars

\* ------------------------------------------------------------------------
\* Direct calls of triggerAutoCall
\* ------------------------------------------------------------------------
\* phone numbers as they are stored: with and without "+", with punctuation, short
PhoneForms ==
    { Phone1, Phone2,
      <<"+", "1", "2", "3", "4">>,
      <<"1", "2", "3", "4">>,
      <<"1", "2", "3", "4", "5">>,
      <<"+", "1", "2", " ", "3", "4", "5">>,
      <<"(", "1", "2", ")", " ", "3", "-", "4", ".", "5">>,
      <<"+", "+", "1", "2", "x", "3">>,
      <<"+">>,
      <<"n", "/", "a">> }

\* the answers of the call service, with every query answered
CallInputs == { [NoFailure EXCEPT !.resp = resp] : resp \in CallResponses }

\* triggerAutoCall(lead, linkedinUrl) is called for a lead row with one of the phones
TriggerAutoCall ==
    /\ nEvents < MaxCallEvents
    /\ \E id \in 1..Len(leads), phone \in PhoneForms, i \in CallInputs :
          LET s == [Store(now + TWENTY_FOUR_HOURS) EXCEPT !.leadId = id]
              c == triggerAutoCall(s, id, [leads[id] EXCEPT !.phone = phone],
                                   normalizeLinkedInUrl(lead_social[id]), i)
              r == Return(c.s, c.r.success, FALSE, c.r.error)
          IN /\ Commit(r)
             /\ last' = [Observed("triggerAutoCall", NoBody, i, r)
                            EXCEPT !.pre.phone = phone]
    /\ UNCHANGED response

NextCall == TriggerAutoCall

SpecCall == Init /\ [][NextCall]_vars

\* ------------------------------------------------------------------------
\* Account status messages
\* ------------------------------------------------------------------------
\* messages of the switch's table as the provider writes them, in other cases, and
\* messages outside the table
StatusMessages ==
    { OK, CREATION_SUCCESS, RECONNECTED, SYNC_SUCCESS, ERROR, STOPPED, CREDENTIALS,
      CONNECTING, DELETED, NULL, NumberMessage,
      <<"O", "k">>,
      <<"e", "r", "r", "o", "r">>,
      <<"S", "t", "o", "p", "p", "e", "d">>,
      <<"c", "r", "e", "d", "e", "n", "t", "i", "a", "l", "s">>,
      <<"C", "o", "n", "n", "e", "c", "t", "i", "n", "g">>,
      <<"d", "e", "l", "e", "t", "e", "d">>,
      <<"s", "y", "n", "c", "_", "s", "u", "c", "c", "e", "s", "s">>,
      <<"F", "R", "O", "B", "N", "I", "C", "A", "T", "E", "D">>,
      <<"A", "c", "c", "o", "u", "n", "t", " ", "d", "i", "s", "c", "o", "n", "n", "e", "c", "t", "e", "d">>,
      <<"D", "I", "S", "C", "O", "N", "N", "E", "C", "T", "E", "D">>,
      <<"s", "y", "n", "c", " ", "s", "t", "o", "p", "p", "e", "d">>,
      <<"i", "n", "a", "c", "t", "i", "v", "e">>,
      <<"S", "e", "s", "s", "i", "o", "n", " ", "a", "c", "t", "i", "v", "e">>,
      <<"c", "o", "n", "n", "e", "c", "t", "e", "d", " ", "a", "g", "a", "i", "n">>,
      <<"C", "H", "E", "C", "K", "P", "O", "I", "N", "T">>,
      <<"c", "r", "e", "d", "e", "n", "t", "i", "a", "l", " ", "e", "x", "p", "i", "r", "e", "d">>,
      <<"p", "a", "u", "s", "e", "d">> }

\* an AccountStatus body reaches LinkedInWebhookService.handleAccountStatusChanged
StatusChanged ==
    /\ nEvents < MaxStatusEvents
    /\ \E accountId \in {"acc1", "acc2"}, message \in StatusMessages :
          LET p == AccountStatus(accountId, message)
              r == handleAccountStatusChanged(Store(now + TWENTY_FOUR_HOURS), p,
                                              NoFailure)
          IN /\ Commit(r)
             /\ last' = Observed("handleAccountStatusChanged", p, NoFailure, r)
    /\ UNCHANGED response

NextStatus == StatusChanged

SpecStatus == Init /\ [][NextStatus]_vars

\* ------------------------------------------------------------------------
\* Properties of the account status mapping (SpecStatus)
\* ------------------------------------------------------------------------
\* a and b are the same text up to the case of their letters
SameIgnoringCase(a, b) ==
    /\ Len(a) = Len(b)
    /\ \A k \in 1..Len(a) :
          \/ a[k] = b[k]
          \/ \E n \in 1..26 : {a[k], b[k]} = {LowerCaseLetters[n], UpperCaseLetters[n]}

\* the table of the claim: status per provider message
StatusTable ==
    { <<OK, "connected">>, <<CREATION_SUCCESS, "connected">>,
      <<RECONNECTED, "connected">>, <<SYNC_SUCCESS, "connected">>,
      <<ERROR, "stopped">>, <<STOPPED, "stopped">>, <<CREDENTIALS, "checkpoint">>,
      <<CONNECTING, "connecting">>, <<DELETED, "disconnected">> }

StatusVocabulary ==
    {"connected", "stopped", "checkpoint", "connecting", "disconnected", "unknown"}

\* the last delivery was an account status message the handler stored
StatusStored ==
    /\ last.handler = "handleAccountStatusChanged"
    /\ last.out.outcome = "returned"
    /\ last.payload.account_id \in DOMAIN linkedin_integrations

InTable(message) == \E row \in StatusTable : SameIgnoringCase(message, row[1])

\* C11: a status message that equals a table entry up to case is stored with that
\* entry's status; FROBNICATED is stored as unknown; every stored status is one of
\* the six values of the vocabulary.
C11_StatusTable ==
    /\ \A a \in DOMAIN linkedin_integrations :
          linkedin_integrations[a].status \in StatusVocabulary
    /\ StatusStored =>
          LET stored == linkedin_integrations[last.payload.account_id].status
              message == last.payload.message
          IN /\ \A row \in StatusTable :
                   SameIgnoringCase(message, row[1]) => stored = row[2]
             /\ message = <<"F", "R", "O", "B", "N", "I", "C", "A", "T", "E", "D">> => stored = "unknown"
             /\ last.out.reason = stored

\* C11 witness: a table entry written in lower case was stored with its status
C11_Witness ==
    /\ StatusStored
    /\ last.payload.message = <<"e", "r", "r", "o", "r">>
    /\ linkedin_integrations[last.payload.account_id].status = "stopped"

\* C12 (as claimed): a message outside the table that contains "disconnected" or
\* "stopped" is stored as disconnected and inactive; otherwise one that contains
\* "connected" or "active" is stored as connected; otherwise one that contains
\* "checkpoint" or "credential" is stored as checkpoint.
C12_SubstringFallback ==
    (StatusStored /\ Truthy(last.payload.message) /\ ~InTable(last.payload.message))
    => LET row == linkedin_integrations[last.payload.account_id]
           has(word) == Contains(ToLowerCase(last.payload.message), word)
       IN IF has(disconnected) \/ has(stopped)
          THEN row.status = "disconnected" /\ ~row.is_active
          ELSE IF has(connected) \/ has(active)
          THEN row.status = "connected" /\ row.is_active
          ELSE (has(checkpoint) \/ has(credential)) => row.status = "checkpoint"

\* ------------------------------------------------------------------------
\* Properties of the webhook endpoint (Spec)
\* ------------------------------------------------------------------------
\* C1: whatever the delivery (account-status shaped, any event name, duplicate, stale,
\* undefined body) and however the handler ends, handleWebhook answers with status
\* 200; success is false with an error message exactly when an exception was thrown.
C1_AlwaysAcknowledged ==
    nEvents > 0
    => /\ response.status = 200
       /\ last.out.outcome = "threw" => (~response.success /\ response.error # "")
       /\ last.out.outcome # "threw" => (response.success /\ response.error = "")

\* C1 witness: a handler threw and the response is still a 200 with success false
C1_Witness ==
    /\ last.handler # "none"
    /\ last.out.outcome = "threw"
    /\ response.status = 200
    /\ ~response.success

\* ------------------------------------------------------------------------
\* Properties of the processed-event set (SpecDedup)
\* ------------------------------------------------------------------------
DuplicateResult == "Duplicate event - already processed"

\* C8: the processed-event set never holds more than 1000 fingerprints, and every
\* delivery treats it as a strict FIFO window: a fingerprint in the set is rejected as
\* a duplicate and leaves the set alone; any other fingerprint is processed and
\* appended, and when the set already held 1000 exactly its oldest entry is dropped.
C8_StrictFifoWindow ==
    /\ [](Len(processedEvents) <= 1000)
    /\ [][ LET fingerprint == EventId(last'.payload, now')
           IN IF \E k \in 1..Len(processedEvents) : processedEvents[k] = fingerprint
              THEN /\ last'.out.reason = DuplicateResult
                   /\ processedEvents' = processedEvents
              ELSE /\ last'.out.reason # DuplicateResult
                   /\ processedEvents' =
                         IF Len(processedEvents) < 1000
                         THEN Append(processedEvents, fingerprint)
                         ELSE Append(Tail(processedEvents), fingerprint) ]_vars

\* C8 witness: with the set at 1000, an event that carries a fingerprint older than
\* every entry left in the set (an evicted one) has been processed again
C8_Witness ==
    /\ Len(processedEvents) = 1000
    /\ last.payload.timestamp # 0
    /\ last.payload.timestamp < Head(processedEvents)[1]
    /\ last.out.reason = "not_in_employees_cache"

\* ------------------------------------------------------------------------
\* Properties of the acceptance pipeline (SpecAccept)
\* ------------------------------------------------------------------------
IsAccepted == last.handler = "handleConnectionAccepted"

Returned == last.out.outcome = "returned"

\* the last delivery's timestamp is more than 24 hours before its receipt
OlderThan24h ==
    LET ts == IF last.payload.timestamp # 0 THEN last.payload.timestamp
              ELSE last.payload.data_timestamp
    IN ts # 0 /\ now - ts > TWENTY_FOUR_HOURS

\* the subject of the last delivery, normalized, is in the employees cache
\* (exactly, or after stripping scheme and www.)
CacheKnowsSubject ==
    LET n == normalizeLinkedInUrl(AcceptedSubject(last.payload))
    IN \E row \in employees_cache :
          \/ row.employee_linkedin_url = n
          \/ UrlForMatching(row.employee_linkedin_url) = UrlForMatching(n)

\* the keys that stand for "request accepted": the fallback and organization 1's
AcceptedStageKeys == {STAGE_REQUEST_ACCEPTED, <<"LI_", "Accepted">>}

\* the lead the last delivery resolved to is as it was before the delivery
LeadUntouched ==
    /\ leads[last.leadId].status = last.pre.status
    /\ leads[last.leadId].stage = last.pre.stage
    /\ leads[last.leadId].phone = last.pre.phone

\* C2 (as claimed): the same acceptance payload delivered twice in a row, with or
\* without a timestamp, applies the request_accepted update at most once and attempts
\* at most one call placement.
C2_SamePayloadTwiceIsIdempotent ==
    (/\ IsAccepted
     /\ last.prev.handler = "handleConnectionAccepted"
     /\ last.payload = last.prev.payload)
    => /\ last.accUpdates + last.prev.accUpdates <= 1
       /\ last.attempts + last.prev.attempts <= 1

\* C3 (as claimed): over any sequence of acceptance events, for every lead at most one
\* call is accepted by the call service and the call-triggered update is applied at
\* most once.
C3_CallTriggeredAtMostOnce ==
    \A id \in 1..Len(leads) : dispatched[id] <= 1 /\ triggered[id] <= 1

\* C4: a fresh (not duplicate, not stale) acceptance event for a lead whose stage is
\* call_triggered places no call and leaves the lead's status and stage as they were,
\* and the result it returns is a skipped one.
C4_CallTriggeredLeadIsSkipped ==
    (/\ IsAccepted
     /\ last.leadId # 0
     /\ last.created = 0
     /\ last.pre.stage = STAGE_CALL_TRIGGERED
     /\ ~last.wasDuplicate
     /\ ~OlderThan24h)
    => /\ last.attempts = 0
       /\ last.accUpdates = 0
       /\ LeadUntouched
       /\ Returned => (last.out.success /\ last.out.skipped)

\* C4 witness: the stage guard skipped an event for a call_triggered lead
C4_Witness ==
    /\ IsAccepted
    /\ last.pre.stage = STAGE_CALL_TRIGGERED
    /\ ~last.wasDuplicate
    /\ ~OlderThan24h
    /\ last.out.reason = "stage_already_call_triggered"

\* C5 (as claimed): an acceptance event older than 24 hours whose subject is a lead
\* or is known to the employees cache returns the stale skip, creates and updates no
\* lead, reveals no phone and places no call.
C5_StaleEventChangesNothing ==
    (/\ IsAccepted
     /\ Returned
     /\ ~last.wasDuplicate
     /\ OlderThan24h
     /\ (last.leadId # 0 \/ CacheKnowsSubject))
    => /\ last.out.reason = "acceptance_too_old"
       /\ last.created = 0
       /\ last.accUpdates = 0
       /\ last.trigUpdates = 0
       /\ last.phoneWrites = 0
       /\ last.attempts = 0

\* C6: a delivery creates a lead only if the employees cache knows its normalized
\* subject; an acceptance event whose subject matches no lead and no cache row returns
\* the not-eligible skip and creates nothing.
C6_LeadCreatedOnlyIfCached ==
    /\ last.created # 0 => (IsAccepted /\ CacheKnowsSubject)
    /\ Len(lead_social) = Len(leads)
    /\ (/\ IsAccepted
        /\ Returned
        /\ ~last.wasDuplicate
        /\ Truthy(AcceptedSubject(last.payload))
        /\ last.leadId = 0
        /\ ~CacheKnowsSubject)
       => /\ last.out.reason = "not_in_employees_cache"
          /\ last.out.success
          /\ last.out.skipped
          /\ last.created = 0

\* C6 witness: a lead was created for a subject the cache knows
C6_Witness == IsAccepted /\ last.created = 1 /\ CacheKnowsSubject

C9_SkipLeavesLeadUntouched ==
    (/\ IsAccepted
     /\ Returned
     /\ last.created = 0
     /\ last.out.reason \in {"stage_already_call_triggered", "call_already_made",
                             "call_already_made_for_phone"})
    => LeadUntouched

\* C10 (as claimed): triggerAutoCall moves the lead to call triggered exactly when the
\* call-placement response does not signal failure; on success=false, a timeout or a
\* transport error the result is a failure and no call-triggered update is applied.
C10_StageMovesIffCallAccepted ==
    (IsAccepted /\ last.attempts > 0)
    => /\ last.trigUpdates > 0
            <=> last.resp \notin {"success_false", "timeout", "transport_error"}
       /\ last.resp \in {"success_false", "timeout", "transport_error"}
            => (last.call = "failed" /\ Returned)

\* ------------------------------------------------------------------------
\* Properties of the lead lookup (SpecLookup)
\* ------------------------------------------------------------------------
\* lead id is not deleted and its stored reference equals the normalized subject of
\* the last delivery, exactly or after stripping scheme and www.
MatchesExactly(id) ==
    LET n == normalizeLinkedInUrl(AcceptedSubject(last.payload))
    IN /\ ~leads[id].is_deleted
       /\ Truthy(lead_social[id])
       /\ \/ lead_social[id] = n
          \/ UrlForMatching(lead_social[id]) = UrlForMatching(n)

\* C13 (as claimed): when some non-deleted lead matches the subject exactly (or after
\* stripping scheme and www.), the lookup resolves to such a lead, not to a lead
\* that matches only by substring, whichever was updated more recently.
C13_ExactMatchPreferred ==
    (/\ IsAccepted
     /\ last.created = 0
     /\ last.leadId # 0
     /\ \E id \in 1..Len(leads) : MatchesExactly(id))
    => MatchesExactly(last.leadId)

\* ------------------------------------------------------------------------
\* Properties of normalizeLinkedInUrl (SpecNormalize)
\* ------------------------------------------------------------------------
\* C14: every way of writing one profile (http, https or no scheme, with or without
\* www., trailing slash, query string) normalizes to https://www.linkedin.com/in/<slug>;
\* the absent input gives null and an input without the platform domain is returned
\* unchanged.
C14_NormalizationEquivalence ==
    /\ \A form \in ProfileForms :
          probe.input = ProfileUrl(form)
          => probe.output = <<"https://", "www.", "linkedin.com", "/in/">> \o form.slug
    /\ probe.input \in OtherUrls => probe.output = probe.input

\* C14 witness: a profile written without scheme, with trailing slash and query
\* string, has been normalized to the canonical string
C14_Witness ==
    /\ probe.input = <<"linkedin.com", "/in/">> \o SlugJ \o <<"/", "?", "x=1">>
    /\ probe.output = <<"https://", "www.", "linkedin.com", "/in/">> \o SlugJ

\* ------------------------------------------------------------------------
\* Properties of the phone reveal (SpecReveal)
\* ------------------------------------------------------------------------
\* C15: no step changes the phone of a lead whose phone is not empty: the reveal is
\* skipped when the row it was given has a phone, and its write from the cache takes
\* effect only if the stored phone is still empty, also when the row it was given is
\* older than another request's write.
C15_PhoneNeverOverwritten ==
    [][ \A id \in 1..Len(leads) :
           leads[id].phone # << >> => leads'[id].phone = leads[id].phone ]_vars

\* C15 witness: the reveal found a phone in the cache for a row it was given without
\* phone, while the stored row already had another phone, and wrote nothing
C15_Witness ==
    /\ last.handler = "revealPhoneNumber"
    /\ last.reveal.fromCache
    /\ last.phoneWrites = 0
    /\ leads[last.leadId].phone = Phone1
    /\ last.reveal.phone # Phone1

\* ------------------------------------------------------------------------
\* Further properties of the acceptance pipeline (SpecAccept)
\* ------------------------------------------------------------------------
AutoCallOff == env.LINKEDIN_AUTO_CALL_ENABLED = "false"

BatchModeOn == env.LINKEDIN_BATCH_CALL_ENABLED = "true"

\* C16: with LINKEDIN_AUTO_CALL_ENABLED=false or LINKEDIN_BATCH_CALL_ENABLED=true no
\* acceptance event sends a request to the call service or moves a lead to call
\* triggered; with auto-call on and batch mode on, an event that gets as far as the
\* call decision reports the call as queued.
C16_SwitchesSuppressCalls ==
    (AutoCallOff \/ BatchModeOn)
    => /\ \A id \in 1..Len(leads) :
             /\ dispatched[id] = 0
             /\ triggered[id] = 0
             /\ leads[id].status # "call_triggered"
       /\ last.attempts = 0
       /\ last.call \notin {"initiated", "failed"}
       /\ (/\ IsAccepted
           /\ Returned
           /\ last.out.reason = "request_accepted"
           /\ ~AutoCallOff)
          => last.call = "queued"

\* C16 witness: in batch mode an event for a lead with a phone was accepted and its
\* call reported as queued
C16_Witness ==
    /\ BatchModeOn
    /\ ~AutoCallOff
    /\ IsAccepted
    /\ last.out.reason = "request_accepted"
    /\ leads[last.leadId].phone # << >>
    /\ last.call = "queued"

\* ------------------------------------------------------------------------
\* Properties of triggerAutoCall (SpecCall)
\* ------------------------------------------------------------------------
\* the number of digits in a phone number
RECURSIVE DigitCount(_)
DigitCount(number) ==
    IF number = << >> THEN 0
    ELSE (IF Head(number) \in {"0", "1", "2", "3", "4", "5", "6", "7", "8", "9"}
          THEN 1 ELSE 0) + DigitCount(Tail(number))

\* C17 (as claimed): triggerAutoCall sends the call service only numbers made of
\* digits after at most one leading "+", with at least 5 digits; for a phone with
\* fewer than 5 digits it returns the invalid-number failure and sends nothing.
C17_ShortNumbersRejected ==
    last.handler = "triggerAutoCall"
    => /\ last.attempts > 0
          => /\ DigitCount(last.request.to_number) >= 5
             /\ Len(last.request.to_number) - DigitCount(last.request.to_number) <= 1
       /\ (/\ ~AutoCallOff
           /\ DigitCount(last.pre.phone) < 5)
          => /\ last.attempts = 0
             /\ ~last.out.success
             /\ last.out.outcome = "returned"

\* ------------------------------------------------------------------------
\* Atomicity of auto-creation and the duplicate result (SpecAccept)
\* ------------------------------------------------------------------------
\* C18 (as claimed): in every reachable state each auto-created lead has its
\* profile-reference link, also after the link insert failed.
C18_CreatedLeadHasLink ==
    \A id \in (Len(InitialLeads) + 1)..Len(leads) : lead_social[id] # << >>

\* the last delivery left every table and the processed-event set as they were
\* before the previous delivery's successor state, and placed no call
NothingDone ==
    /\ last.created = 0
    /\ last.accUpdates = 0
    /\ last.trigUpdates = 0
    /\ last.phoneWrites = 0
    /\ last.attempts = 0
    /\ last.leadId = 0

\* C19 (as claimed): an acceptance event whose fingerprint is already in the
\* processed-event set reads and writes nothing, places no call, and returns a
\* skipped result that is not marked as a failure.
C19_DuplicateIsSkippedNotFailed ==
    (IsAccepted /\ last.wasDuplicate)
    => /\ NothingDone
       /\ Returned
       /\ last.out.success
       /\ last.out.skipped

\* ------------------------------------------------------------------------
\* Declined leads (Spec)
\* ------------------------------------------------------------------------
\* C20 (as claimed): once a lead's status is request_declined, a later sent, accepted
\* or declined event for it changes neither its status nor its stage and triggers no
\* phone reveal and no call.
C20_DeclinedIsTerminal ==
    (/\ last.leadId # 0
     /\ last.created = 0
     /\ last.pre.status = "request_declined")
    => /\ LeadUntouched
       /\ last.phoneWrites = 0
       /\ last.attempts = 0

\* ------------------------------------------------------------------------
\* Frame of an account-status event (Spec)
\* ------------------------------------------------------------------------
\* the step is a delivery that reached handleAccountStatusChanged
AccountStatusStep == last'.handler = "handleAccountStatusChanged"

\* C21: a delivery handled by handleAccountStatusChanged leaves every lead, every
\* profile link, the call log and the processed-event set as they were, finds no lead,
\* places no call, creates no account link, and changes no account link other than
\* the one whose unipile_account_id is the payload's account id.
C21_AccountStatusFrame ==
    [][AccountStatusStep
       => /\ leads' = leads
          /\ lead_social' = lead_social
          /\ call_logs' = call_logs
          /\ processedEvents' = processedEvents
          /\ dispatched' = dispatched
          /\ triggered' = triggered
          /\ last'.leadId = 0
          /\ last'.attempts = 0
          /\ last'.phoneWrites = 0
          /\ DOMAIN linkedin_integrations' = DOMAIN linkedin_integrations
          /\ \A a \in DOMAIN linkedin_integrations :
                a # last'.payload.account_id
                => linkedin_integrations'[a] = linkedin_integrations[a]]_vars

\* an account-status event for acc1 has changed that link
C21_Witness ==
    /\ last.handler = "handleAccountStatusChanged"
    /\ last.payload.account_id = "acc1"
    /\ Returned
    /\ linkedin_integrations["acc1"].status = "stopped"
    /\ linkedin_integrations["acc2"].status = "connected"

\* ------------------------------------------------------------------------
\* Concurrent acceptance deliveries: one event loop, calls interleave at their awaits
\* ------------------------------------------------------------------------
\* the processed-event set after MaxProcessedEvents deliveries of FreshEvent, one a
\* day, to a process started at StartTime
FilledProcessedEvents ==
    [k \in 1..MaxProcessedEvents |-> <<StartTime + k * TWENTY_FOUR_HOURS, Canon(SlugZ)>>]

\* the set as the process holds it at time t before the concurrent deliveries
ProcessedBefore(t) == IF t = StartTime THEN << >> ELSE FilledProcessedEvents

\* a process that has just started, or one that has taken MaxProcessedEvents
\* deliveries of FreshEvent
InitConcurrent ==
    /\ leads = InitialLeads
    /\ lead_social = InitialLeadSocial
    /\ call_logs = {}
    /\ linkedin_integrations = InitialIntegrations
    /\ now \in {StartTime, StartTime + MaxProcessedEvents * TWENTY_FOUR_HOURS}
    /\ processedEvents = ProcessedBefore(now)
    /\ env \in [LINKEDIN_AUTO_CALL_ENABLED : {"", "false"},
                LINKEDIN_BATCH_CALL_ENABLED : {"", "true"}]
    /\ dispatched = <<0, 0>>
    /\ triggered = <<0, 0>>
    /\ nEvents = 0
    /\ last = NoLast
    /\ response = [status |-> 0, success |-> FALSE, error |-> ""]
    /\ probe = NoProbe
    /\ inflight = NoneInFlight
    /\ direct = NoDirectCall
    /\ processor = NewProcessor

\* acceptance events that arrive while another one is being handled: two events for
\* lead 1 a day apart, one for lead 2, two a day apart for a subject the employees
\* cache knows but no lead has, one for an unknown subject, one without subject
ConcurrentPayloads(t) ==
    { Accepted(t, Canon(SlugJ)),
      Accepted(t - TWENTY_FOUR_HOURS, Canon(SlugJ)),
      Accepted(t, Canon(SlugA)),
      Accepted(t, Canon(SlugK)),
      Accepted(t - TWENTY_FOUR_HOURS, Canon(SlugK)),
      Accepted(t, Canon(SlugZ)),
      Accepted(t, NULL) }

\* what a step leaves in the database, the process and the call service
Effect(r) ==
    /\ leads' = r.leads
    /\ lead_social' = r.lead_social
    /\ call_logs' = r.call_logs
    /\ linkedin_integrations' = r.linkedin_integrations
    /\ processedEvents' = r.processedEvents
    /\ dispatched' = r.dispatched
    /\ triggered' = r.triggered
    /\ UNCHANGED <<now, env, nEvents, last, response, probe, direct, processor>>

\* the call returns (or its promise settles) with this reason
Finish(req, reason) == [req EXCEPT !.pc = "done", !.result = reason]

Suspend(req, pc) == [req EXCEPT !.pc = pc]

NormalizedSubject(req) == normalizeLinkedInUrl(AcceptedSubject(req.payload))

\* triggerAutoCall up to its first await (lines 787-852), for a lead with a phone
EnterTriggerAutoCall(req) ==
    IF InvalidPhone(CleanPhone(req.leadWithPhone.phone))
    THEN Finish(req, "request_accepted")
    ELSE Suspend(req, "agentQuery")

\* lines 366-387: the call decision, up to the await it reaches
CallDecision(req) ==
    IF /\ autoCallEnabled(env)
       /\ ~batchModeEnabled(env)
       /\ Truthy(req.leadWithPhone.phone)
    THEN EnterTriggerAutoCall(req)
    ELSE Finish(req, "request_accepted")

\* lines 38-79, run without yielding: the dedup gate and the subject extraction
Arrive(q) ==
    /\ inflight[q].pc = "idle"
    /\ \E p \in ConcurrentPayloads(now) :
          LET eventId == EventId(p, now)
              s == Store(now)
              req == [inflight[q] EXCEPT !.payload = p, !.eventId = eventId]
          IN IF IsDuplicate(processedEvents, eventId)
             THEN /\ Effect(s)
                  /\ inflight' = [inflight EXCEPT ![q] =
                        Finish(req, "Duplicate event - already processed")]
             ELSE /\ Effect([s EXCEPT !.processedEvents = MarkProcessed(@, eventId)])
                  /\ inflight' = [inflight EXCEPT ![q] =
                        IF Truthy(AcceptedSubject(p))
                        THEN Suspend([req EXCEPT !.passed = TRUE], "leadQuery")
                        ELSE Finish([req EXCEPT !.passed = TRUE], "undefined")]

\* lines 231-266: CHECK 1 on the payload's timestamp, then the await of CHECK 2
AfterLeadFound(req, id, lead) ==
    IF IsStale(PayloadTimestamp(req.payload), now)
    THEN Finish([req EXCEPT !.id = id], "acceptance_too_old")
    ELSE Suspend([req EXCEPT !.id = id, !.lead = lead], "existingCallQuery")

\* line 110 and what follows without yielding: the lookup, then either the
\* 24-hour check or the await of the employees-cache query
LeadQueryStep(q) ==
    /\ inflight[q].pc = "leadQuery"
    /\ LET req == inflight[q]
           normalizedUrl == NormalizedSubject(req)
           urlForMatching == UrlForMatching(normalizedUrl)
           rows == leadQuery(Store(now), normalizedUrl, urlForMatching)
           id == PickRow(rows, 0)
       IN inflight' = [inflight EXCEPT ![q] =
             IF rows = {} THEN Suspend(req, "employeeCacheCheck")
             ELSE AfterLeadFound(req, id, leads[id])]
    /\ Effect(Store(now))

\* line 122: the employees-cache query; a subject it knows goes on to the await of
\* the organization query (the name is computed without yielding)
EmployeeCacheStep(q) ==
    /\ inflight[q].pc = "employeeCacheCheck"
    /\ LET req == inflight[q]
           normalizedUrl == NormalizedSubject(req)
       IN inflight' = [inflight EXCEPT ![q] =
             IF NotInEmployeesCache(
                   employeeCacheCheck(normalizedUrl, UrlForMatching(normalizedUrl)))
             THEN Finish(req, "not_in_employees_cache")
             ELSE Suspend(req, "orgQuery")]
    /\ Effect(Store(now))

\* line 175: SELECT DISTINCT organization_id ... LIMIT 1, the database picks the row
OrgQueryStep(q) ==
    /\ inflight[q].pc = "orgQuery"
    /\ \E organizationId \in IF orgQuery(Store(now)) = {} THEN {0}
                              ELSE orgQuery(Store(now)) :
          inflight' = [inflight EXCEPT ![q] =
             Suspend([@ EXCEPT !.organizationId = organizationId], "createLead")]
    /\ Effect(Store(now))

\* line 198: INSERT INTO leads ... RETURNING: the new row gets the next id
CreateLeadStep(q) ==
    /\ inflight[q].pc = "createLead"
    /\ LET req == inflight[q]
           id == Len(leads) + 1
           createdLead == NewLeadRow(LeadName(req.payload), req.organizationId, now)
       IN /\ Effect([Store(now) EXCEPT !.leads = Append(@, createdLead),
                                       !.lead_social = Append(@, NULL),
                                       !.dispatched = Append(@, 0),
                                       !.triggered = Append(@, 0)])
          /\ inflight' = [inflight EXCEPT ![q] =
                Suspend([req EXCEPT !.id = id, !.lead = createdLead],
                        "createLeadSocial")]

\* line 216: INSERT INTO lead_social for the created lead, then CHECK 1
CreateLeadSocialStep(q) ==
    /\ inflight[q].pc = "createLeadSocial"
    /\ LET req == inflight[q]
       IN /\ Effect([Store(now) EXCEPT !.lead_social[req.id] = NormalizedSubject(req)])
          /\ inflight' = [inflight EXCEPT ![q] = AfterLeadFound(req, req.id, req.lead)]

\* line 266: CHECK 2, then the stage guard on the row read at line 110
ExistingCallStep(q) ==
    /\ inflight[q].pc = "existingCallQuery"
    /\ LET req == inflight[q]
       IN inflight' = [inflight EXCEPT ![q] =
             IF existingCallQuery(Store(now), req.id) # {}
             THEN Finish(req, "call_already_made")
             ELSE IF AlreadyCallTriggered(req.lead)
             THEN Finish(req, "stage_already_call_triggered")
             ELSE Suspend(req, "stageQuery")]
    /\ Effect(Store(now))

\* line 305: the stage key is read from lead_stages, which no handler writes
StageQueryStep(q) ==
    /\ inflight[q].pc = "stageQuery"
    /\ inflight' = [inflight EXCEPT ![q] = Suspend(@, "updateQuery")]
    /\ Effect(Store(now))

\* line 320: UPDATE leads SET status = 'request_accepted', stage = $1 ... RETURNING
UpdateStep(q) ==
    /\ inflight[q].pc = "updateQuery"
    /\ LET req == inflight[q]
           acceptedStageKey == StageKeyByFragment(req.lead.organization_id, FALSE,
                                                  <<"accepted">>, STAGE_REQUEST_ACCEPTED)
           u == UpdateLead(Store(now), req.id, "request_accepted", acceptedStageKey)
       IN /\ Effect(u)
          /\ inflight' = [inflight EXCEPT ![q] =
                Suspend([req EXCEPT !.updatedLead = u.leads[req.id]], "reveal")]

\* line 331: revealPhoneNumber on the row the UPDATE returned; its cache query reads
\* employees_cache, which no handler writes, and its UPDATE is one guarded statement
RevealStep(q) ==
    /\ inflight[q].pc = "reveal"
    /\ LET req == inflight[q]
           rv == revealPhoneNumber(Store(now), req.id, req.updatedLead,
                                   NormalizedSubject(req), NoFailure)
       IN /\ Effect(rv.s)
          /\ inflight' = [inflight EXCEPT ![q] =
                Suspend([req EXCEPT !.reveal = rv.r], "leadWithPhoneQuery")]

\* line 334: the lead is read again; with a phone the call waits for CHECK 3
LeadWithPhoneStep(q) ==
    /\ inflight[q].pc = "leadWithPhoneQuery"
    /\ LET req == inflight[q]
           leadWithPhone == leads[req.id]
           phoneNumber == Or2(leadWithPhone.phone,
                              IF req.reveal.success THEN req.reveal.phone ELSE NULL)
           read == [req EXCEPT !.leadWithPhone = leadWithPhone,
                               !.phoneNumber = phoneNumber]
       IN inflight' = [inflight EXCEPT ![q] =
             IF Truthy(phoneNumber) THEN Suspend(read, "recentCallCheck")
             ELSE CallDecision(read)]
    /\ Effect(Store(now))

\* line 343: CHECK 3, then the call decision
RecentCallStep(q) ==
    /\ inflight[q].pc = "recentCallCheck"
    /\ LET req == inflight[q]
       IN inflight' = [inflight EXCEPT ![q] =
             IF recentCallCheck(Store(now), req.phoneNumber) # {}
             THEN Finish(req, "call_already_made_for_phone")
             ELSE CallDecision(req)]
    /\ Effect(Store(now))

\* line 863: the default agent is read from organization settings
AgentQueryStep(q) ==
    /\ inflight[q].pc = "agentQuery"
    /\ inflight' = [inflight EXCEPT ![q] = Suspend(@, "post")]
    /\ Effect(Store(now))

\* line 891: the call service takes the request and answers
PostStep(q) ==
    /\ inflight[q].pc = "post"
    /\ \E resp \in CallResponses :
          LET req == [inflight[q] EXCEPT !.posted = @ + 1]
          IN IF ~PostThrows(resp) /\ CallInitiated(resp)
             THEN /\ Effect(CallAccepted(Store(now), req.id, NoFailure))
                  /\ inflight' = [inflight EXCEPT ![q] = Suspend(req, "callStageUpdate")]
             ELSE /\ Effect(Store(now))
                  /\ inflight' = [inflight EXCEPT ![q] = Finish(req, "request_accepted")]

\* lines 918-931: the call-triggered stage key is read and the lead is moved to it
CallStageUpdateStep(q) ==
    /\ inflight[q].pc = "callStageUpdate"
    /\ LET req == inflight[q]
       IN /\ Effect(CallTriggeredUpdate(Store(now), req.id,
                                        req.leadWithPhone.organization_id, NoFailure))
          /\ inflight' = [inflight EXCEPT ![q] = Finish(req, "request_accepted")]

NextConcurrent ==
    \E q \in Requests :
        \/ Arrive(q)
        \/ LeadQueryStep(q)
        \/ EmployeeCacheStep(q)
        \/ OrgQueryStep(q)
        \/ CreateLeadStep(q)
        \/ CreateLeadSocialStep(q)
        \/ ExistingCallStep(q)
        \/ StageQueryStep(q)
        \/ UpdateStep(q)
        \/ RevealStep(q)
        \/ LeadWithPhoneStep(q)
        \/ RecentCallStep(q)
        \/ AgentQueryStep(q)
        \/ PostStep(q)
        \/ CallStageUpdateStep(q)

SpecConcurrent == InitConcurrent /\ [][NextConcurrent]_vars

\* ------------------------------------------------------------------------
\* The dedup gate under concurrent deliveries (SpecConcurrent)
\* ------------------------------------------------------------------------
HasArrived(q) == inflight[q].pc # "idle"

ReportedDuplicate(q) ==
    /\ inflight[q].pc = "done"
    /\ inflight[q].result = "Duplicate event - already processed"

\* C22: the processed-event set never holds more than 1000 fingerprints nor one
\* fingerprint twice, and of the concurrent deliveries with one fingerprint at most
\* one passes the gate, every one that does not pass is reported as a duplicate, and
\* exactly one passes when the fingerprint was not in the set before them.
C22_GateIsAtomic ==
    /\ Len(processedEvents) <= MaxProcessedEvents
    /\ Cardinality(SeqToSet(processedEvents)) = Len(processedEvents)
    /\ \A q \in Requests :
          HasArrived(q)
          => /\ \A o \in Requests \ {q} :
                   (HasArrived(o) /\ inflight[q].eventId = inflight[o].eventId)
                   => ~(inflight[q].passed /\ inflight[o].passed)
             /\ ~inflight[q].passed => ReportedDuplicate(q)
             /\ ~IsDuplicate(ProcessedBefore(now), inflight[q].eventId)
                => \E o \in Requests :
                      /\ HasArrived(o)
                      /\ inflight[o].eventId = inflight[q].eventId
                      /\ inflight[o].passed

\* two deliveries with one fingerprint arrived at a full set: one passed and evicted
\* the oldest fingerprint, the other is a duplicate, and the first is still in flight
C22_Witness ==
    /\ inflight[1].eventId = inflight[2].eventId
    /\ inflight[1].passed
    /\ inflight[1].pc \notin {"idle", "done"}
    /\ ReportedDuplicate(2)
    /\ Len(processedEvents) = MaxProcessedEvents
    /\ Head(processedEvents) # Head(FilledProcessedEvents)

\* ------------------------------------------------------------------------
\* Retry after a failed call dispatch (SpecAccept)
\* ------------------------------------------------------------------------
\* the previous delivery placed a call that the call service did not accept
PreviousCallFailed ==
    /\ last.prev.handler = "handleConnectionAccepted"
    /\ last.prev.attempts > 0
    /\ last.prev.okCalls = 0

\* the last event carries no timestamp, or one that differs from the previous
\* event's timestamp
FollowOnTimestamp ==
    \/ last.payload.timestamp = 0
    \/ /\ last.prev.payload.timestamp # 0
       /\ last.payload.timestamp # last.prev.payload.timestamp

\* the last delivery is the previous event again, or a later acceptance event for
\* the same subject that is not older than 24 hours
RetryEvent ==
    /\ IsAccepted
    /\ AcceptedSubject(last.payload) = AcceptedSubject(last.prev.payload)
    /\ \/ last.payload = last.prev.payload
       \/ ~OlderThan24h /\ FollowOnTimestamp

\* C23 (as claimed): after a call dispatch that failed, a redelivery of the same
\* acceptance event or a follow-on acceptance event for the same lead passes the dedup
\* gate and the guards, and a delivery that returns has placed a new call.
C23_FailedCallIsRetried ==
    (PreviousCallFailed /\ RetryEvent)
    => /\ ~last.wasDuplicate
       /\ ~last.out.skipped
       /\ Returned => last.attempts > 0

\* ------------------------------------------------------------------------
\* Routing of deliveries (Spec)
\* ------------------------------------------------------------------------
\* the body of the step's delivery has the AccountStatus wrapper
WrapperStep == last'.payload.AccountStatus /\ ~last'.payload.malformed

\* C24: a delivery whose body has the top-level AccountStatus wrapper reaches
\* handleAccountStatusChanged with the wrapper's content and reaches no other handler,
\* whatever its event, type or object field names: no lead, profile link, call log or
\* fingerprint changes, and a delivery that returns for a known account has stored
\* the wrapper's message in that account's link.
C24_WrapperHasPriority ==
    [][WrapperStep
       => /\ last'.handler = "handleAccountStatusChanged"
          /\ leads' = leads
          /\ lead_social' = lead_social
          /\ call_logs' = call_logs
          /\ processedEvents' = processedEvents
          /\ last'.leadId = 0
          /\ last'.attempts = 0
          /\ (/\ last'.out.outcome = "returned"
              /\ last'.payload.account_id \in DOMAIN linkedin_integrations)
             => /\ linkedin_integrations'[last'.payload.account_id].status_message
                      = last'.payload.message
                /\ last'.out.reason = mappedStatus(last'.payload.message)]_vars

\* a body with the wrapper and event connection.accepted for lead 1's profile has
\* been handled as an account-status event
C24_Witness ==
    /\ last.payload.AccountStatus
    /\ last.payload.event = "connection.accepted"
    /\ last.payload.user_profile_url = Canon(SlugJ)
    /\ Returned
    /\ linkedin_integrations["acc2"].status = "disconnected"
    /\ leads[1].status = "request_sent"

\* the logical event name of the step's body: event, else type, else object
LogicalEvent ==
    IF last'.payload.event # "" THEN last'.payload.event
    ELSE IF last'.payload.type # "" THEN last'.payload.type
    ELSE last'.payload.object

AcceptanceNames ==
    {"connection.accepted", "invitation.accepted", "new_relation", "relation"}

SentNames == {"connection.sent", "invitation.sent"}

DeclinedNames == {"connection.declined", "invitation.declined"}

AccountStatusNames ==
    {"account.status_changed", "account.status", "account.state_changed",
     "account.state"}

\* the step's delivery is a generic body
GenericStep == ~last'.payload.AccountStatus /\ ~last'.payload.malformed

\* the lead the step's handler found has this status afterwards
FoundLeadHasStatus(status) ==
    (last'.out.outcome = "returned" /\ last'.leadId # 0)
    => leads'[last'.leadId].status = status

\* C25: for a generic body the event name is event, else type, else object; each of
\* the four acceptance names reaches handleConnectionAccepted, each of the two sent
\* names handleConnectionSent, each of the two declined names
\* handleConnectionDeclined, each of the four account names
\* handleAccountStatusChanged, and only that handler acts; for message.received and
\* every other name no handler runs, nothing in the store changes and the response
\* reports success.
C25_AliasesReachOneHandler ==
    [][GenericStep
       => /\ LogicalEvent \in AcceptanceNames
             <=> last'.handler = "handleConnectionAccepted"
          /\ LogicalEvent \in SentNames <=> last'.handler = "handleConnectionSent"
          /\ LogicalEvent \in DeclinedNames
             <=> last'.handler = "handleConnectionDeclined"
          /\ LogicalEvent \in AccountStatusNames
             <=> last'.handler = "handleAccountStatusChanged"
          /\ last'.handler = "handleConnectionAccepted"
             => /\ last'.wasDuplicate \/ processedEvents' # processedEvents
                /\ linkedin_integrations' = linkedin_integrations
          /\ last'.handler = "handleConnectionSent"
             => /\ processedEvents' = processedEvents
                /\ linkedin_integrations' = linkedin_integrations
                /\ last'.attempts = 0
                /\ FoundLeadHasStatus("request_sent")
          /\ last'.handler = "handleConnectionDeclined"
             => /\ processedEvents' = processedEvents
                /\ linkedin_integrations' = linkedin_integrations
                /\ last'.attempts = 0
                /\ FoundLeadHasStatus("request_declined")
          /\ last'.handler = "handleAccountStatusChanged"
             => /\ processedEvents' = processedEvents
                /\ leads' = leads
                /\ last'.attempts = 0
          /\ last'.handler = "none"
             => /\ UNCHANGED <<leads, lead_social, call_logs, linkedin_integrations,
                               processedEvents, dispatched, triggered>>
                /\ response' = [status |-> 200, success |-> TRUE, error |-> ""]]_vars

\* a body named connection.sent by event and connection.declined by type was handled
\* as a sent event
C25_Witness ==
    /\ last.payload.event = "connection.sent"
    /\ last.payload.type = "connection.declined"
    /\ last.handler = "handleConnectionSent"
    /\ Returned
    /\ leads[2].status = "request_sent"
    /\ leads[2].updated_at = now
    /\ response.success

\* ------------------------------------------------------------------------
\* Bodies without a subject (Spec)
\* ------------------------------------------------------------------------
\* the step's body carries none of the fields a handler takes the subject from
NoSubjectStep ==
    /\ last'.handler \in {"handleConnectionAccepted", "handleConnectionSent",
                          "handleConnectionDeclined"}
    /\ last'.payload.user_profile_url = << >>
    /\ last'.payload.recipient_linkedin_profile_url = << >>
    /\ last'.payload.recipient_profile_url = << >>
    /\ last'.payload.recipient_linkedin_url = << >>
    /\ last'.payload.linkedin_url = << >>
    /\ last'.payload.profile_url = << >>

\* C26: an acceptance, sent or declined event whose body carries no subject field
\* makes its handler return without throwing, whatever the database would answer,
\* and no lead, profile link, account link or call is created or changed.
C26_NoSubjectIsDropped ==
    [][NoSubjectStep
       => /\ last'.out.outcome = "returned"
          /\ response'.success
          /\ leads' = leads
          /\ lead_social' = lead_social
          /\ linkedin_integrations' = linkedin_integrations
          /\ call_logs' = call_logs
          /\ dispatched' = dispatched
          /\ last'.leadId = 0
          /\ last'.attempts = 0]_vars

\* a sent event without subject was the first delivery: the handler returned
\* nothing and the store is as it was
C26_Witness ==
    /\ last.handler = "handleConnectionSent"
    /\ last.payload.recipient_linkedin_profile_url = << >>
    /\ last.payload.linkedin_url = << >>
    /\ Returned
    /\ last.out.reason = "undefined"
    /\ response.success
    /\ nEvents = 1
    /\ leads = InitialLeads

\* ------------------------------------------------------------------------
\* PlatformValidator.validateActionPayload
\* ------------------------------------------------------------------------
\* manifest.platforms: every platform is enabled; features as listed
manifest_platforms ==
    [p \in {"linkedin", "instagram", "whatsapp", "facebook"} |->
        [enabled |-> TRUE,
         features |->
            CASE p = "linkedin" -> {"connect", "send-invitation", "messaging",
                                    "profile-lookup"}
              [] p = "instagram" -> {"connect", "messaging", "follow"}
              [] p = "whatsapp" -> {"connect", "messaging"}
              [] p = "facebook" -> {"connect", "messaging", "friend-request"}]]

\* platform.toLowerCase() on the names the model uses
LowerPlatform(platform) ==
    CASE platform = "LinkedIn" -> "linkedin"
      [] platform = "WhatsApp" -> "whatsapp"
      [] OTHER -> platform

\* !!manifest.platforms[platform.toLowerCase()], false for a missing platform
isPlatformSupported(platform) ==
    platform # "" /\ LowerPlatform(platform) \in DOMAIN manifest_platforms

isPlatformEnabled(platform) ==
    isPlatformSupported(platform) /\ manifest_platforms[LowerPlatform(platform)].enabled

\* config.features.includes(feature)
supportsFeature(platform, feature) ==
    /\ isPlatformSupported(platform)
    /\ feature \in manifest_platforms[LowerPlatform(platform)].features

\* the errors the switch over the action collects, in order
PayloadErrors(action, payload) ==
    CASE action = "send-invitation" ->
            (IF payload.profile = "" /\ payload.profileUrl = ""
                /\ payload.publicIdentifier = ""
             THEN <<"profile, profileUrl, or publicIdentifier is required">>
             ELSE << >>)
            \o (IF payload.accountId = "" THEN <<"accountId is required">> ELSE << >>)
      [] action = "send-message" ->
            (IF payload.message = "" THEN <<"message is required">> ELSE << >>)
            \o (IF payload.providerId = "" /\ payload.phoneNumber = ""
                THEN <<"providerId or phoneNumber is required">> ELSE << >>)
            \o (IF payload.accountId = "" THEN <<"accountId is required">> ELSE << >>)
      [] action = "lookup" ->
            (IF payload.profileUrl = "" /\ payload.publicIdentifier = ""
                /\ payload.phoneNumber = ""
             THEN <<"profileUrl, publicIdentifier, or phoneNumber is required">>
             ELSE << >>)
            \o (IF payload.accountId = "" THEN <<"accountId is required">> ELSE << >>)
      [] action = "connect" -> << >>
      [] OTHER -> <<"Unknown action">>

validateActionPayload(platform, action, payload) ==
    LET errors ==
            IF ~isPlatformSupported(platform) THEN <<"Unsupported platform">>
            ELSE IF ~isPlatformEnabled(platform) THEN <<"Platform is currently disabled">>
            ELSE IF ~supportsFeature(platform, action)
            THEN <<"Action not supported for platform">>
            ELSE PayloadErrors(action, payload)
    IN [valid |-> Len(errors) = 0, errors |-> errors]

\* values of one payload field: absent or given
FieldValues == {"", "x"}

ActionPayloads ==
    [profile : FieldValues, profileUrl : FieldValues, publicIdentifier : FieldValues,
     accountId : FieldValues, message : FieldValues, providerId : FieldValues,
     phoneNumber : FieldValues]

PlatformNames == {"linkedin", "instagram", "whatsapp", "facebook", "LinkedIn",
                  "WhatsApp", "twitter", ""}

ActionNames == {"send-invitation", "send-message", "lookup", "connect", "messaging"}

\* sendInvitation, sendMessage and lookupProfile validate the request first; a
\* request that is not valid is answered with 400
ValidateRequest ==
    /\ nEvents < MaxValidations
    /\ nEvents' = nEvents + 1
    /\ \E platform \in PlatformNames, action \in ActionNames, payload \in ActionPayloads :
          direct' = [fn |-> "validateActionPayload", platform |-> platform,
                     action |-> action, payload |-> payload,
                     validation |-> validateActionPayload(platform, action, payload),
                     status |-> IF validateActionPayload(platform, action, payload).valid
                                THEN 200 ELSE 400]
    /\ UNCHANGED <<leads, lead_social, call_logs, linkedin_integrations,
                   processedEvents, now, env, dispatched, triggered, last, response,
                   probe, inflight, processor>>

NextValidate == ValidateRequest

SpecValidate == Init /\ [][NextValidate]_vars

\* ------------------------------------------------------------------------
\* Actions the README lists (SpecValidate)
\* ------------------------------------------------------------------------
\* README, Supported Platforms: the actions of each platform
ReadmeActions ==
    [p \in {"linkedin", "instagram", "whatsapp", "facebook"} |->
        IF p = "whatsapp" THEN {"send-message"}
        ELSE {"send-invitation", "send-message", "lookup"}]

\* the payload carries every field
CompletePayload == \A f \in DOMAIN direct.payload : direct.payload[f] # ""

\* C27 (as claimed): for every platform and every action the README lists for it, a
\* payload that carries all fields is valid and the request is not answered with 400.
C27_ListedActionsAreAccepted ==
    (/\ direct.fn = "validateActionPayload"
     /\ direct.platform \in DOMAIN ReadmeActions
     /\ direct.action \in ReadmeActions[direct.platform]
     /\ CompletePayload)
    => /\ direct.validation.valid
       /\ direct.status # 400

\* ------------------------------------------------------------------------
\* Batch send: LinkedInIntegration.batchSendConnectionRequests and
\* SocialIntegrationController.genericBatchSend
\* ------------------------------------------------------------------------
\* an entry of req.body.profiles: an object with or without name and
\* publicIdentifier, or null (the controller checks only that profiles is an array)
ProfileEntries ==
    { [null |-> FALSE, name |-> "John Doe", publicIdentifier |-> "johndoe"],
      [null |-> FALSE, name |-> "", publicIdentifier |-> "janesmith"],
      [null |-> FALSE, name |-> "", publicIdentifier |-> ""],
      [null |-> TRUE, name |-> "", publicIdentifier |-> ""] }

\* how sendInvitation ends for one profile
SendOutcomes == {"success", "alreadySent", "failure", "thrown"}

\* sendInvitation(null, ...) cannot read the profile's URL: it fails or throws
OutcomesFor(profile) == IF profile.null THEN {"failure", "thrown"} ELSE SendOutcomes

\* the batch functions: the LinkedIn service's own loop and the controller's
BatchPaths == {"batchSendConnectionRequests", "genericBatchSend"}

\* profile.name || profile.publicIdentifier || 'Unknown', or profile.name || 'Unknown'
ProfileLabel(path, profile) ==
    IF profile.name # "" THEN profile.name
    ELSE IF path = "batchSendConnectionRequests" /\ profile.publicIdentifier # ""
    THEN profile.publicIdentifier
    ELSE "Unknown"

\* const results = { total: profiles.length, successful: 0, failed: 0, ... };
\* attempted lists the indexes sendInvitation was called for, rejected tells that an
\* exception left the loop
NewResults(profiles) ==
    [total |-> Len(profiles), successful |-> 0, failed |-> 0, alreadySent |-> 0,
     results |-> << >>, attempted |-> << >>, rejected |-> FALSE]

\* the counters after a returned result
Counted(acc, outcome) ==
    CASE outcome = "success" -> [acc EXCEPT !.successful = @ + 1]
      [] outcome = "alreadySent" -> [acc EXCEPT !.alreadySent = @ + 1]
      [] OTHER -> [acc EXCEPT !.failed = @ + 1]

\* the entry pushed to results.results
ResultEntry(path, profile, outcome) ==
    [profile |-> ProfileLabel(path, profile),
     success |-> outcome \in {"success", "alreadySent"},
     alreadySent |-> outcome = "alreadySent",
     error |-> IF outcome \in {"failure", "thrown"} THEN "error" ELSE ""]

\* one pass of the for loop for a profile object
ProfileDone(acc, path, profile, outcome, i) ==
    [Counted(acc, outcome) EXCEPT
        !.results = Append(@, ResultEntry(path, profile, outcome)),
        !.attempted = Append(@, i)]

\* one pass for a null entry: profile.name throws a TypeError in the try block (in
\* the LinkedIn loop's log line before the send, in the generic loop when the entry
\* is pushed) and again in the catch block, which nothing catches
NullProfileDone(acc, path, outcome, i) ==
    IF path = "batchSendConnectionRequests"
    THEN [acc EXCEPT !.rejected = TRUE]
    ELSE LET sent == [acc EXCEPT !.attempted = Append(@, i)]
             counted == IF outcome = "thrown" THEN sent ELSE Counted(sent, outcome)
         IN [counted EXCEPT !.failed = @ + 1, !.rejected = TRUE]

\* for (let i = 0; i < profiles.length; i++) { try { ... } catch (error) { ... } }
RECURSIVE BatchLoop(_, _, _, _, _)
BatchLoop(path, profiles, outcomes, i, acc) ==
    IF i > Len(profiles) THEN acc
    ELSE IF profiles[i].null THEN NullProfileDone(acc, path, outcomes[i], i)
    ELSE BatchLoop(path, profiles, outcomes, i + 1,
                   ProfileDone(acc, path, profiles[i], outcomes[i], i))

\* lists of one to MaxProfiles entries
ProfileLists == UNION { [1..n -> ProfileEntries] : n \in 1..MaxProfiles }

\* one batch call: the list, what each send does, and what the function returns
BatchSend ==
    /\ nEvents < MaxBatches
    /\ nEvents' = nEvents + 1
    /\ \E path \in BatchPaths, profiles \in ProfileLists :
          \E outcomes \in [1..Len(profiles) -> SendOutcomes] :
             /\ \A i \in 1..Len(profiles) : outcomes[i] \in OutcomesFor(profiles[i])
             /\ direct' = [fn |-> "batchSend", path |-> path, profiles |-> profiles,
                           outcomes |-> outcomes,
                           returned |-> BatchLoop(path, profiles, outcomes, 1,
                                                  NewResults(profiles))]
    /\ UNCHANGED <<leads, lead_social, call_logs, linkedin_integrations,
                   processedEvents, now, env, dispatched, triggered, last, response,
                   probe, inflight, processor>>

NextBatch == BatchSend

SpecBatch == Init /\ [][NextBatch]_vars

\* ------------------------------------------------------------------------
\* The batch result (SpecBatch)
\* ------------------------------------------------------------------------
\* the indexes 1..n in order
InOrder(n) == [i \in 1..n |-> i]

\* C28 (as claimed): for any list of profiles and any pattern of per-profile
\* outcomes the batch function returns, has called the send once for every profile in
\* list order, and its result has total = successful + failed + alreadySent = the
\* number of profiles and one results entry per profile in the same order.
C28_BatchCountsEveryProfile ==
    direct.fn = "batchSend"
    => LET n == Len(direct.profiles)
           r == direct.returned
       IN /\ ~r.rejected
          /\ r.attempted = InOrder(n)
          /\ r.total = n
          /\ r.successful + r.failed + r.alreadySent = n
          /\ Len(r.results) = n
          /\ \A i \in 1..Len(r.results) :
                r.results[i] = ResultEntry(direct.path, direct.profiles[i],
                                           direct.outcomes[i])

\* ------------------------------------------------------------------------
\* Concurrent acceptance events for one lead (SpecConcurrent)
\* ------------------------------------------------------------------------
\* both calls are for this lead and carry different fingerprints
ConcurrentFor(id, q, o) ==
    /\ q # o
    /\ inflight[q].id = id
    /\ inflight[o].id = id
    /\ inflight[q].eventId # inflight[o].eventId

\* C29 (as claimed): when two acceptance events with different fingerprints for the
\* same lead are handled concurrently, at most one of them has its call accepted by
\* the call service and at most one applies the call-triggered update.
C29_OneCallPerLead ==
    \A id \in 1..Len(leads) : \A q, o \in Requests :
        ConcurrentFor(id, q, o)
        => /\ dispatched[id] <= 1
           /\ triggered[id] <= 1

\* ------------------------------------------------------------------------
\* Acceptance events of one day that carry the subject in different fields
\* ------------------------------------------------------------------------
\* the fields handleConnectionAccepted takes the subject from
SubjectFields ==
    {"user_profile_url", "recipient_linkedin_profile_url", "recipient_profile_url",
     "recipient_linkedin_url", "linkedin_url", "profile_url"}

\* an acceptance event with timestamp ts whose subject is carried in one field
AcceptedVia(field, ts, url) ==
    [[NoBody EXCEPT !.event = "connection.accepted", !.timestamp = ts]
        EXCEPT ![field] = url]

\* events for lead 1's and lead 2's profiles, stamped with the time of delivery
SameDayPayloads(t) ==
    { AcceptedVia(field, t, Canon(slug)) : field \in SubjectFields, slug \in {SlugJ, SlugA} }

\* an acceptance event arrives on the day of the previous one
SameDayDelivery ==
    /\ nEvents < MaxSameDayEvents
    /\ \E p \in SameDayPayloads(now) :
          LET r == handleConnectionAccepted(Store(now), p, NoFailure)
          IN /\ Commit(r)
             /\ last' = Observed("handleConnectionAccepted", p, NoFailure, r)
    /\ UNCHANGED response

NextSameDay == SameDayDelivery

SpecSameDay == Init /\ [][NextSameDay]_vars

\* ------------------------------------------------------------------------
\* The fingerprint's subject (SpecSameDay)
\* ------------------------------------------------------------------------
\* the subject of a body, whichever field carries it
CarriedSubject(p) ==
    CHOOSE url \in {p[f] : f \in SubjectFields} \cup {<< >>} :
        url # << >> \/ \A f \in SubjectFields : p[f] = << >>

\* C30 (as claimed): two acceptance events with the same timestamp that identify
\* different subjects have different fingerprints, so the second is not reported as a
\* duplicate and is processed up to its lead, whichever field carries the subject.
C30_FingerprintUsesMatchedSubject ==
    (/\ IsAccepted
     /\ last.prev.handler = "handleConnectionAccepted"
     /\ last.payload.timestamp = last.prev.payload.timestamp
     /\ CarriedSubject(last.payload) # CarriedSubject(last.prev.payload))
    => /\ ~last.wasDuplicate
       /\ last.leadId # 0

\* ------------------------------------------------------------------------
\* Auto-created leads under concurrent deliveries (SpecConcurrent)
\* ------------------------------------------------------------------------
\* the leads whose profile link is this subject
LeadsLinkedTo(url) == { id \in DOMAIN lead_social : lead_social[id] = url }

\* the call has passed the gate for this subject and is past the lead creation
ResolvedLeadFor(q, url) ==
    /\ inflight[q].passed
    /\ NormalizedSubject(inflight[q]) = url
    /\ inflight[q].pc \notin {"leadQuery", "employeeCacheCheck", "orgQuery",
                              "createLead", "createLeadSocial"}

\* C31: acceptance events with different fingerprints for a subject that the
\* employees cache knows and no lead has leave exactly one lead linked to that
\* subject, whether they are handled one after the other or concurrently.
C31_OneLeadPerSubject ==
    /\ Cardinality(LeadsLinkedTo(Canon(SlugK))) <= 1
    /\ (\E q \in Requests : ResolvedLeadFor(q, Canon(SlugK)))
       => Cardinality(LeadsLinkedTo(Canon(SlugK))) = 1

\* ------------------------------------------------------------------------
\* Late connection-sent events (Spec)
\* ------------------------------------------------------------------------
\* C32 (as claimed): a connection-sent event that finds a lead already at
\* request_accepted or call_triggered leaves the lead's status and stage as they
\* were, so status only advances along new, request_sent, request_accepted,
\* call_triggered.
C32_SentNeverMovesBack ==
    (/\ last.handler = "handleConnectionSent"
     /\ last.leadId # 0
     /\ last.pre.status \in {"request_accepted", "call_triggered"})
    => /\ leads[last.leadId].status = last.pre.status
       /\ leads[last.leadId].stage = last.pre.stage

\* ------------------------------------------------------------------------
\* The call-triggered transition (Spec)
\* ------------------------------------------------------------------------
\* the stage keys the call-triggered update can write
CallTriggeredStageKeys == {STAGE_CALL_TRIGGERED, <<"auto_", "call_", "triggered">>}

\* the lead is at call triggered by status or by stage
AtCallTriggered(lead) ==
    \/ lead.status = "call_triggered"
    \/ lead.stage \in CallTriggeredStageKeys

\* C33: a lead at call triggered has had a call placed that the call service did not
\* refuse; the delivery that moves a lead to call triggered is an acceptance that
\* applied the request_accepted update, ran the phone reveal and placed a call whose
\* answer did not signal failure; and a delivery to any other handler leaves every
\* lead's call-triggered state as it was.
C33_CallTriggeredFollowsCall ==
    /\ \A id \in DOMAIN leads :
          (AtCallTriggered(leads[id]) \/ triggered[id] > 0) => dispatched[id] > 0
    /\ last.trigUpdates > 0
       => /\ last.handler = "handleConnectionAccepted"
          /\ last.accUpdates > 0
          /\ last.reveal # NotRevealed
          /\ last.attempts > 0
          /\ last.okCalls > 0
          /\ last.resp \in {"success_true", "no_success_field"}
    /\ (last.leadId # 0 /\ AtCallTriggered(leads[last.leadId]))
       => \/ AtCallTriggered(last.pre)
          \/ last.handler = "handleConnectionAccepted" /\ last.trigUpdates > 0

\* an acceptance placed a call, the call service answered without a success field,
\* and the lead moved from request_sent to call triggered
C33_Witness ==
    /\ last.handler = "handleConnectionAccepted"
    /\ last.resp = "no_success_field"
    /\ last.trigUpdates > 0
    /\ last.pre.status = "request_sent"
    /\ leads[last.leadId].status = "call_triggered"
    /\ dispatched[last.leadId] > 0

\* ------------------------------------------------------------------------
\* Acceptance for a lead without any phone number (SpecNoPhone)
\* ------------------------------------------------------------------------
\* lead 2 has no phone, and the employees cache has no row for its profile
InitNoPhone ==
    /\ leads = [InitialLeads EXCEPT ![2].phone = NULL]
    /\ lead_social = InitialLeadSocial
    /\ call_logs = {}
    /\ linkedin_integrations = InitialIntegrations
    /\ processedEvents = << >>
    /\ now = StartTime
    /\ env \in [LINKEDIN_AUTO_CALL_ENABLED : {"", "false"},
                LINKEDIN_BATCH_CALL_ENABLED : {"", "true"}]
    /\ dispatched = <<0, 0>>
    /\ triggered = <<0, 0>>
    /\ nEvents = 0
    /\ last = NoLast
    /\ response = [status |-> 0, success |-> FALSE, error |-> ""]
    /\ probe = NoProbe
    /\ inflight = NoneInFlight
    /\ direct = NoDirectCall
    /\ processor = NewProcessor

SpecNoPhone == InitNoPhone /\ [][NextAccept]_vars

\* the last delivery found a lead without phone whose profile has no cached phone,
\* passed the duplicate, 24-hour and stage guards, and no query failed
PipelineWithoutPhone ==
    /\ last.handler = "handleConnectionAccepted"
    /\ last.leadId # 0
    /\ last.created = 0
    /\ ~last.wasDuplicate
    /\ ~OlderThan24h
    /\ ~AlreadyCallTriggered(last.pre)
    /\ Returned
    /\ ~Truthy(last.pre.phone)
    /\ \A row \in revealCacheQuery(normalizeLinkedInUrl(AcceptedSubject(last.payload))) :
          ~Truthy(row.employee_phone)

\* C34: an acceptance for a lead that has no phone, with no phone in the employees
\* cache for its profile, moves the lead to request accepted, places no call, leaves
\* the lead without phone at the request-accepted stage, and returns a successful,
\* unskipped result whose phone reveal ran and reports failure.
C34_NoPhoneDefersTheCall ==
    PipelineWithoutPhone
    => /\ last.accUpdates = 1
       /\ leads[last.leadId].status = "request_accepted"
       /\ leads[last.leadId].stage \in AcceptedStageKeys
       /\ ~Truthy(leads[last.leadId].phone)
       /\ last.attempts = 0
       /\ last.trigUpdates = 0
       /\ last.call \in {"none", "queued"}
       /\ last.out.success
       /\ ~last.out.skipped
       /\ last.reveal = NoPhoneResult

\* with auto-call on and batch mode off, lead 2 was moved from request_sent to
\* request accepted and no call was placed
C34_Witness ==
    /\ PipelineWithoutPhone
    /\ last.leadId = 2
    /\ autoCallEnabled(env)
    /\ ~batchModeEnabled(env)
    /\ last.pre.status = "request_sent"
    /\ leads[2].status = "request_accepted"
    /\ last.call = "none"

\* ------------------------------------------------------------------------
\* The is_active flag of an account link (SpecStatus)
\* ------------------------------------------------------------------------
\* the message handleAccountStatusChanged read from the last delivery
LastStatusMessage == Or2(last.payload.message, Or2(last.payload.status, unknown))

\* the last delivery updated the link of its account
StatusApplied ==
    /\ last.handler = "handleAccountStatusChanged"
    /\ Returned
    /\ last.payload.account_id \in DOMAIN linkedin_integrations

\* C35: every account link is active exactly when its stored status is connected,
\* and after a status event was applied to a link the stored status is the mapped
\* one, so the link is inactive for stopped, checkpoint, connecting, disconnected and
\* unknown, the last one being the status of an unrecognized or missing message.
C35_ActiveIffConnected ==
    /\ \A a \in DOMAIN linkedin_integrations :
          linkedin_integrations[a].is_active
          <=> linkedin_integrations[a].status = "connected"
    /\ StatusApplied
       => /\ linkedin_integrations[last.payload.account_id].status
                = mappedStatus(LastStatusMessage)
          /\ last.out.reason = mappedStatus(LastStatusMessage)

\* a body without message was applied: the link is stored as unknown and inactive
C35_Witness ==
    /\ StatusApplied
    /\ last.payload.message = NULL
    /\ last.payload.status = NULL
    /\ linkedin_integrations[last.payload.account_id].status = "unknown"
    /\ ~linkedin_integrations[last.payload.account_id].is_active

\* ------------------------------------------------------------------------
\* EmployeeAutoProcessor: runs, notification listener, timers
\* ------------------------------------------------------------------------
\* a processNewEmployees call is between its entry and its finally block
ActiveRun(p, q) == p.runs[q].pc \in {"connect", "usersQuery", "employeesQuery", "users"}

\* a guard that lets every call through
NeverProcessing(p) == FALSE

\* if (this.isProcessing)
AlreadyProcessing(p) == p.isProcessing

\* lines 33-38, run without yielding: the skip, or the flag is set and the call goes on
\* to await db.connect()
EnterProcessNewEmployees(p, q) ==
    LET called == [NoRun EXCEPT !.afterStop = p.stopped,
                                !.enteredWhileActive = \E o \in Runs : ActiveRun(p, o)]
    IN IF AlreadyProcessing(p)
       THEN [p EXCEPT !.runs[q] = [called EXCEPT !.pc = "done", !.result = "skipped"]]
       ELSE [p EXCEPT !.isProcessing = TRUE,
                      !.runs[q] = [called EXCEPT !.pc = "connect"]]

\* lines 199-204: the finally block, after a return or a rethrown error
EndRun(p, q, result) ==
    [p EXCEPT !.isProcessing = FALSE, !.runs[q].pc = "done", !.runs[q].result = result]

\* one more query sent to the database by this call
Queried(p, q) == [p EXCEPT !.runs[q].queries = @ + 1]

\* lines 300-317, run without yielding: nothing when already listening, else a new
\* client is stored in this.notificationClient and its connect() is awaited
EnterStartNotificationListener(p, c) ==
    IF p.isListening
    THEN [p EXCEPT !.listens[c] = [NoListen EXCEPT !.pc = "done",
                                                   !.result = "already",
                                                   !.afterStop = p.stopped]]
    ELSE [p EXCEPT !.notificationClient = c,
                   !.listens[c] = [NoListen EXCEPT !.pc = "connect",
                                                   !.afterStop = p.stopped]]

\* lines 351-354: the catch block of startNotificationListener
ListenerFailed(p, c) ==
    [p EXCEPT !.isListening = FALSE, !.listens[c].pc = "done",
              !.listens[c].result = "failed"]

\* the first call slots that have not been used
FreeRuns(p) == { q \in Runs : p.runs[q].pc = "idle" }

FreeListens(p) == { c \in Listens : p.listens[c].pc = "idle" }

FirstOf(S) == CHOOSE x \in S : \A y \in S : x <= y

\* the processor changes and the webhook engine's state does not
ProcessorStep(p) ==
    /\ processor' = p
    /\ UNCHANGED <<leads, lead_social, call_logs, linkedin_integrations,
                   processedEvents, now, env, dispatched, triggered, nEvents, last,
                   response, probe, inflight, direct>>

\* lines 362-385: startProcessor starts the listener, makes the first call and sets
\* the interval, all before it yields
StartProcessor ==
    /\ ~processor.started
    /\ LET listening == EnterStartNotificationListener(processor,
                                                       FirstOf(FreeListens(processor)))
           running == EnterProcessNewEmployees(listening, FirstOf(FreeRuns(listening)))
       IN ProcessorStep([running EXCEPT !.scheduledInterval = TRUE, !.started = TRUE])

\* lines 377-383: the interval fires
IntervalTick ==
    /\ processor.scheduledInterval
    /\ FreeRuns(processor) # {}
    /\ ProcessorStep(EnterProcessNewEmployees(processor, FirstOf(FreeRuns(processor))))

\* line 42: db.connect() resolves or rejects
ConnectStep(q) ==
    /\ processor.runs[q].pc = "connect"
    /\ \E ok \in BOOLEAN :
          ProcessorStep(IF ok THEN [processor EXCEPT !.runs[q].pc = "usersQuery"]
                        ELSE EndRun(processor, q, "threw"))

\* lines 45-72: the users query; no user ends the run
UsersQueryStep(q) ==
    /\ processor.runs[q].pc = "usersQuery"
    /\ \E users \in 0..MaxUsers, ok \in BOOLEAN :
          LET p == Queried(processor, q)
          IN ProcessorStep(
                IF ~ok THEN EndRun(p, q, "threw")
                ELSE IF users = 0 THEN EndRun(p, q, "processed_0")
                ELSE [p EXCEPT !.runs[q].pc = "employeesQuery",
                               !.runs[q].users = users])

\* lines 76-118: the new-employees query; no new employee ends the run
EmployeesQueryStep(q) ==
    /\ processor.runs[q].pc = "employeesQuery"
    /\ \E outcome \in {"rows", "empty", "rejects"} :
          LET p == Queried(processor, q)
          IN ProcessorStep(
                CASE outcome = "rejects" -> EndRun(p, q, "threw")
                  [] outcome = "empty" -> EndRun(p, q, "processed_0")
                  [] OTHER -> [p EXCEPT !.runs[q].pc = "users"])

\* lines 130-194: one user's leads are saved, requests sent and statuses updated, with
\* every error caught inside the loop; after the last user the results are returned
UserStep(q) ==
    /\ processor.runs[q].pc = "users"
    /\ LET p == Queried([processor EXCEPT !.runs[q].users = @ - 1], q)
       IN ProcessorStep(IF p.runs[q].users = 0 THEN EndRun(p, q, "results") ELSE p)

\* lines 317-318: connect() settles; then LISTEN is sent on this.notificationClient
ListenerConnectStep(c) ==
    /\ processor.listens[c].pc = "connect"
    /\ \E ok \in BOOLEAN :
          ProcessorStep(
             IF ~ok \/ processor.notificationClient = 0
             THEN ListenerFailed(processor, c)
             ELSE [processor EXCEPT !.listens[c].pc = "listen"])

\* lines 318-349: LISTEN settles; then the flag is set and the handlers are attached
\* to this.notificationClient, which is null after a stop
ListenerListenStep(c) ==
    /\ processor.listens[c].pc = "listen"
    /\ \E ok \in BOOLEAN :
          ProcessorStep(
             IF ~ok \/ processor.notificationClient = 0
             THEN ListenerFailed(processor, c)
             ELSE [processor EXCEPT !.isListening = TRUE,
                                    !.handlers[processor.notificationClient] = @ + 1,
                                    !.listens[c].pc = "done",
                                    !.listens[c].result = "listening"])

\* lines 324-335: a notification on a live client sets one 2-second timer per handler
Notification(c) ==
    /\ processor.handlers[c] > 0
    /\ c \notin processor.ended
    /\ processor.notifyTimers + processor.handlers[c] <= MaxTimers
    /\ ProcessorStep([processor EXCEPT !.notifyTimers = @ + processor.handlers[c]])

\* lines 329-333: the 2-second timer fires
NotifyTimerFires ==
    /\ processor.notifyTimers > 0
    /\ FreeRuns(processor) # {}
    /\ ProcessorStep(EnterProcessNewEmployees(
                        [processor EXCEPT !.notifyTimers = @ - 1],
                        FirstOf(FreeRuns(processor))))

\* lines 338-349: an error on a live client clears the flag and sets one 5-second
\* timer per handler
ClientError(c) ==
    /\ processor.handlers[c] > 0
    /\ c \notin processor.ended
    /\ processor.reconnectTimers + processor.handlers[c] <= MaxTimers
    /\ ProcessorStep([processor EXCEPT !.isListening = FALSE,
                                       !.reconnectTimers = @ + processor.handlers[c]])

\* lines 343-348: the 5-second timer fires
ReconnectTimerFires ==
    /\ processor.reconnectTimers > 0
    /\ FreeListens(processor) # {}
    /\ ProcessorStep(EnterStartNotificationListener(
                        [processor EXCEPT !.reconnectTimers = @ - 1],
                        FirstOf(FreeListens(processor))))

\* lines 390-404: the interval is cleared and the current client is ended and dropped
StopProcessor ==
    /\ processor.started
    /\ ~processor.stopped
    /\ ProcessorStep(
          IF processor.notificationClient # 0
          THEN [processor EXCEPT !.scheduledInterval = FALSE,
                                 !.ended = @ \cup {processor.notificationClient},
                                 !.notificationClient = 0,
                                 !.isListening = FALSE,
                                 !.stopped = TRUE]
          ELSE [processor EXCEPT !.scheduledInterval = FALSE, !.stopped = TRUE])

NextProcessor ==
    \/ StartProcessor
    \/ IntervalTick
    \/ NotifyTimerFires
    \/ ReconnectTimerFires
    \/ StopProcessor
    \/ \E q \in Runs :
          \/ ConnectStep(q)
          \/ UsersQueryStep(q)
          \/ EmployeesQueryStep(q)
          \/ UserStep(q)
    \/ \E c \in Listens :
          \/ ListenerConnectStep(c)
          \/ ListenerListenStep(c)
          \/ Notification(c)
          \/ ClientError(c)

SpecProcessor == Init /\ [][NextProcessor]_vars

\* ------------------------------------------------------------------------
\* One run at a time (SpecProcessor)
\* ------------------------------------------------------------------------
\* C36: at most one processNewEmployees run is between its entry and its finally
\* block; the isProcessing flag is set exactly while such a run exists, so it is
\* cleared when the run ends by an early return, by completion or by a thrown error;
\* and a call entered while a run is active ends at once as skipped, having sent no
\* query.
C36_OneRunAtATime ==
    /\ Cardinality({ q \in Runs : ActiveRun(processor, q) }) <= 1
    /\ processor.isProcessing <=> \E q \in Runs : ActiveRun(processor, q)
    /\ \A q \in Runs :
          /\ processor.runs[q].enteredWhileActive
             => /\ processor.runs[q].pc = "done"
                /\ processor.runs[q].result = "skipped"
          /\ processor.runs[q].result = "skipped" => processor.runs[q].queries = 0

\* one call was skipped while a run was active, that run ended with a thrown error,
\* and a later call is running
C36_Witness ==
    \E a, b, c \in Runs :
        /\ processor.runs[a].result = "threw"
        /\ processor.runs[b].result = "skipped"
        /\ processor.runs[b].enteredWhileActive
        /\ ActiveRun(processor, c)
        /\ processor.runs[c].queries > 0

\* ------------------------------------------------------------------------
\* After stopProcessor (SpecProcessor)
\* ------------------------------------------------------------------------
\* C37 (as claimed): once stopProcessor has returned, no processNewEmployees call made
\* afterwards starts a run, and the processor is not listening for notifications.
C37_StopIsFinal ==
    processor.stopped
    => /\ \A q \in Runs :
             processor.runs[q].afterStop => processor.runs[q].pc \in {"idle", "done"}
                                            /\ processor.runs[q].result \in {"", "skipped"}
       /\ ~processor.isListening

====
